---------------------------- MODULE Spec2Model ----------------------------
(***************************************************************************)
(* Model of the eqsolver class (src/eqsolver.h, src/eqsolver.cpp): exact   *)
(* rational Gauss-Jordan solver on fractions of unsigned 32-bit numerator, *)
(* denominator and a sign field.                                           *)
(*                                                                         *)
(* The machine integers of the program are wider than the integers of the  *)
(* model checker, so every machine integer is a natural number written as  *)
(* a little-endian sequence of 15-bit limbs without leading zero limbs     *)
(* (zero is <<>>, 5 is <<5>>, 32768 is <<0, 1>>).  Arithmetic on limbs is  *)
(* exact; the program's widths are applied where the program applies them  *)
(* (Trunc32 for a store into an unsigned int, Trunc64 for UINT64).         *)
(***************************************************************************)
EXTENDS Integers, Sequences, FiniteSets, TLC

(***************************************************************************)
(* Natural numbers as limb sequences                                       *)
(***************************************************************************)
Base == 2^15

Z == <<>>

RECURSIVE Norm(_)
Norm(s) ==
    IF s = <<>> THEN <<>>
    ELSE IF s[Len(s)] = 0 THEN Norm(SubSeq(s, 1, Len(s) - 1))
    ELSE s

RECURSIVE NatOf(_)
NatOf(n) == IF n = 0 THEN <<>> ELSE <<n % Base>> \o NatOf(n \div Base)

Limb(a, i) == IF i <= Len(a) THEN a[i] ELSE 0

\* a < 2^31: the value fits the model checker's integers
Fits(a) == Len(a) <= 2 \/ (Len(a) = 3 /\ a[3] < 2)

IntOf(a) == Limb(a, 1) + Limb(a, 2) * Base + Limb(a, 3) * Base * Base

RECURSIVE AddFrom(_, _, _, _)
AddFrom(a, b, i, c) ==
    IF i > Len(a) /\ i > Len(b)
    THEN (IF c = 0 THEN <<>> ELSE <<c>>)
    ELSE LET t == Limb(a, i) + Limb(b, i) + c
         IN  <<t % Base>> \o AddFrom(a, b, i + 1, t \div Base)

BAdd(a, b) ==
    IF Len(a) <= 2 /\ Len(b) <= 2
    THEN NatOf(IntOf(a) + IntOf(b))
    ELSE Norm(AddFrom(a, b, 1, 0))

RECURSIVE LessAt(_, _, _)
LessAt(a, b, i) ==
    IF i = 0 THEN FALSE
    ELSE IF a[i] # b[i] THEN a[i] < b[i]
    ELSE LessAt(a, b, i - 1)

BLess(a, b) == IF Len(a) # Len(b) THEN Len(a) < Len(b) ELSE LessAt(a, b, Len(a))

BLeq(a, b) == ~BLess(b, a)

RECURSIVE SubFrom(_, _, _, _)
SubFrom(a, b, i, c) ==
    IF i > Len(a) THEN <<>>
    ELSE LET t == Limb(a, i) - Limb(b, i) - c
         IN  IF t < 0 THEN <<t + Base>> \o SubFrom(a, b, i + 1, 1)
             ELSE <<t>> \o SubFrom(a, b, i + 1, 0)

\* a - b for b <= a
BSub(a, b) ==
    IF Fits(a) THEN NatOf(IntOf(a) - IntOf(b)) ELSE Norm(SubFrom(a, b, 1, 0))

RECURSIVE MulLimbFrom(_, _, _, _)
MulLimbFrom(a, d, i, c) ==
    IF i > Len(a) THEN (IF c = 0 THEN <<>> ELSE <<c>>)
    ELSE LET t == a[i] * d + c
         IN  <<t % Base>> \o MulLimbFrom(a, d, i + 1, t \div Base)

MulLimb(a, d) == IF d = 0 THEN <<>> ELSE MulLimbFrom(a, d, 1, 0)

RECURSIVE MulAcc(_, _, _)
MulAcc(a, b, j) ==
    IF j > Len(b) THEN <<>>
    ELSE AddFrom(MulLimb(a, b[j]), <<0>> \o MulAcc(a, b, j + 1), 1, 0)

BMul(a, b) ==
    IF Len(a) <= 1 /\ Len(b) <= 1
    THEN NatOf(Limb(a, 1) * Limb(b, 1))
    ELSE Norm(MulAcc(a, b, 1))

\* the largest q in lo..hi with b*q <= r
RECURSIVE QDigit(_, _, _, _)
QDigit(r, b, lo, hi) ==
    IF lo = hi THEN lo
    ELSE LET mid == (lo + hi + 1) \div 2
         IN  IF BLeq(MulLimb(b, mid), r)
             THEN QDigit(r, b, mid, hi)
             ELSE QDigit(r, b, lo, mid - 1)

\* long division of the limbs a[1..i] after the higher limbs left remainder r
RECURSIVE DivFrom(_, _, _, _)
DivFrom(a, b, i, r) ==
    LET Emit(rest, d) == [q |-> rest.q \o <<d>>, r |-> rest.r]
        Digit(r2, d) ==
            Emit(DivFrom(a, b, i - 1, BSub(r2, MulLimb(b, d))), d)
        Shift(r2) == Digit(r2, QDigit(r2, b, 0, Base - 1))
    IN  IF i = 0 THEN [q |-> <<>>, r |-> r]
        ELSE Shift(Norm(<<a[i]>> \o r))

\* a / b and a % b of the C unsigned types, for b # 0
BDiv(a, b) ==
    IF Fits(a) /\ Fits(b) THEN NatOf(IntOf(a) \div IntOf(b))
    ELSE Norm(DivFrom(a, b, Len(a), <<>>).q)

BMod(a, b) ==
    IF Fits(a) /\ Fits(b) THEN NatOf(IntOf(a) % IntOf(b))
    ELSE DivFrom(a, b, Len(a), <<>>).r

\* conversion to a 32-bit and to a 64-bit unsigned integer
Trunc32(a) == Norm(<<Limb(a, 1), Limb(a, 2), Limb(a, 3) % 4>>)

Trunc64(a) ==
    Norm(<<Limb(a, 1), Limb(a, 2), Limb(a, 3), Limb(a, 4), Limb(a, 5) % 16>>)

(***************************************************************************)
(* Signed integers (INT64, int): a sign and a magnitude                    *)
(***************************************************************************)
SInt(neg, mag) == [neg |-> neg /\ mag # Z, mag |-> mag]

SNeg(x) == SInt(~x.neg, x.mag)

SAdd(x, y) ==
    IF x.neg = y.neg THEN SInt(x.neg, BAdd(x.mag, y.mag))
    ELSE IF BLess(x.mag, y.mag) THEN SInt(y.neg, BSub(y.mag, x.mag))
    ELSE SInt(x.neg, BSub(x.mag, y.mag))

SMul(x, y) == SInt(x.neg # y.neg, BMul(x.mag, y.mag))

SLess(x, y) ==
    IF x.neg # y.neg THEN x.neg
    ELSE IF x.neg THEN BLess(y.mag, x.mag)
    ELSE BLess(x.mag, y.mag)

\* 2^31 - 1, the limit of a signed 32-bit word, as an unsigned limit
SignedLimit == <<32767, 32767, 1>>

\* #define UINT32MAX 42946972195LL, the literal as the header spells it:
\* 42946972195 = 18979 + 32685 * 2^15 + 39 * 2^30
UINT32MAX == <<18979, 32685, 39>>

\* #define INT32MAX 2147483647LL and INT32MIN -2147483648LL
INT32MAX == SInt(FALSE, <<32767, 32767, 1>>)

INT32MIN == SInt(TRUE, <<0, 0, 2>>)

SOLVED == 1

NO_SOLUTIONS == 2

INFINITE_SOLUTIONS == 3

MEMORY_ERROR == 4

OVERFLOW == 5

(***************************************************************************)
(* struct fraction                                                         *)
(***************************************************************************)
Frac(n, d, s) == [numerator |-> n, denominator |-> d, sign |-> s]

\* the "0/0" value every zero-initialising loop and overflow return writes
ZeroFrac == Frac(Z, Z, 0)

One == NatOf(1)

\* the test (x.numerator == 0) && (x.denominator == 0) of add and solveSystem
IsZeroCell(f) == f.numerator = Z /\ f.denominator = Z

\* the result of a fraction operation: the value returned and whether the
\* operation executed overFlow = 1
Ret(f, o) == [val |-> f, of |-> o]

\* while (num2) { temp = num1; num1 = num2; num2 = temp % num2; }
RECURSIVE Euclid(_, _)
Euclid(num1, num2) == IF num2 = Z THEN num1 ELSE Euclid(num2, BMod(num1, num2))

reduce(unreducedFraction) ==
    LET Lowest(gcf) ==
            Frac(BDiv(unreducedFraction.numerator, gcf),
                 BDiv(unreducedFraction.denominator, gcf),
                 unreducedFraction.sign)
    IN  IF unreducedFraction.numerator = Z \/ unreducedFraction.denominator = Z
        THEN ZeroFrac
        ELSE IF unreducedFraction.numerator = unreducedFraction.denominator
        THEN Frac(One, One, unreducedFraction.sign)
        ELSE Lowest(Euclid(unreducedFraction.numerator,
                           unreducedFraction.denominator))

\* the "Set Sign" ladder of divide and multiply
SignOfProduct(s1, s2) ==
    IF s1 = 1 THEN (IF s2 = 1 THEN 0 ELSE 1)
    ELSE (IF s2 = 1 THEN 1 ELSE 0)

\* the common body of multiply and divide: numerator n1*n2, denominator
\* d1*d2, each checked as a UINT64 product against UINT32MAX and then stored
\* into an unsigned int; first is the operand returned when the denominator
\* came out zero
CheckedProduct(n1, n2, d1, d2, s1, s2, first) ==
    LET Stored(num, den) ==
            IF num # Z /\ den = Z THEN Ret(first, 0)
            ELSE Ret(reduce(Frac(num, den, SignOfProduct(s1, s2))), 0)
        Checked(numCheck, denCheck) ==
            IF BLess(UINT32MAX, numCheck) THEN Ret(ZeroFrac, 1)
            ELSE IF BLess(UINT32MAX, denCheck) THEN Ret(ZeroFrac, 1)
            ELSE Stored(Trunc32(numCheck), Trunc32(denCheck))
    IN  Checked(BMul(n1, n2), BMul(d1, d2))

divide(dividend, divisor) ==
    CheckedProduct(dividend.numerator, divisor.denominator,
                   dividend.denominator, divisor.numerator,
                   dividend.sign, divisor.sign, dividend)

multiply(fraction1, fraction2) ==
    CheckedProduct(fraction1.numerator, fraction2.numerator,
                   fraction1.denominator, fraction2.denominator,
                   fraction1.sign, fraction2.sign, fraction1)

\* a value of type int or INT64 converted from the stored bits: the result
\* of a C integer conversion or of arithmetic that wrapped, modulo
\* full = 2 * half = 2^bits
WrapSigned(x, half, full) ==
    LET Signed(u) ==
            IF BLess(u, half) THEN SInt(FALSE, u)
            ELSE SInt(TRUE, BSub(full, u))
        Bits(m) == Signed(IF x.neg /\ m # Z THEN BSub(full, m) ELSE m)
    IN  IF BLess(x.mag, half) THEN x ELSE Bits(BMod(x.mag, full))

TwoTo31 == <<0, 0, 2>>

TwoTo32 == <<0, 0, 4>>

TwoTo63 == <<0, 0, 0, 0, 8>>

TwoTo64 == <<0, 0, 0, 0, 16>>

ToInt32(x) == WrapSigned(x, TwoTo31, TwoTo32)

ToInt64(x) == WrapSigned(x, TwoTo63, TwoTo64)

OutOfInt32(x) == SLess(INT32MAX, x) \/ SLess(x, INT32MIN)

\* numNOverflowCheckWithSign = (INT64)fraction.numerator, times -1 when the
\* sign field is 1
SignedNumerator(f) == SInt(f.sign = 1, f.numerator)

\* The values an uninitialised unsigned int can be found to hold, as far as
\* the program tells them apart: every test of a sign field is == 0 or
\* == 1, so 2 stands for any other bit pattern.
Indeterminate == {0, 1, 2}

\* what a read finds that g has no entry for
Unread == 3

\* g lists what the uninitialised reads of one call find, in the order of
\* the reads, one entry for each read: read number k (from 0) finds
\* g[k + 1].  A call is followed only with a g that has an entry for every
\* read it makes (Covered); a result computed from Unread shows only that
\* g is too short for the call.
GarbageAt(g, k) == IF k < Len(g) THEN g[k + 1] ELSE Unread

\* g has an entry for each of the k reads a call made
Covered(g, k) == k <= Len(g)

\* the result of add: the value returned, whether add executed overFlow = 1
\* and the number of uninitialised reads made so far
RetK(f, o, k) == [val |-> f, of |-> o, k |-> k]

\* the numerator add has formed when it reaches the denominator: whether
\* the path executed overFlow = 1 and returned, the unsigned int numerator,
\* the sign field of result and the number of uninitialised reads so far
Sum(o, num, sgn, k) == [of |-> o, num |-> num, sign |-> sgn, k |-> k]

\* lines 529-542, both sign fields 0: the UINT64 sum of the cross products
\* is checked and stored, and result.sign is never assigned, so the read
\* of it at line 664 is read number k of g
UnsignedSum(fraction1, fraction2, g, k) ==
    LET Checked(overflowCheck) ==
            IF BLess(UINT32MAX, overflowCheck) THEN Sum(1, Z, 0, k)
            ELSE Sum(0, Trunc32(overflowCheck), GarbageAt(g, k), k + 1)
    IN  Checked(Trunc64(BAdd(BMul(fraction1.numerator, fraction2.denominator),
                             BMul(fraction2.numerator, fraction1.denominator))))

\* lines 543-644, some sign field not 0: INT64 numerators with their signs,
\* their cross products and the total, each checked against INT32MAX and
\* INT32MIN; resultNum is the int the total is stored into
SignedSum(fraction1, fraction2, k) ==
    LET Stored(resultNum) ==
            Sum(0, Trunc32(resultNum.mag), IF resultNum.neg THEN 1 ELSE 0, k)
        Totalled(num1Check, num2Check, cross1, cross2, total) ==
            IF fraction1.sign = 1 /\ SLess(num1Check, INT32MIN)
            THEN Sum(1, Z, 0, k)
            ELSE IF fraction1.sign # 1 /\ SLess(INT32MAX, num1Check)
            THEN Sum(1, Z, 0, k)
            ELSE IF fraction2.sign = 1 /\ SLess(num2Check, INT32MIN)
            THEN Sum(1, Z, 0, k)
            \* line 587 tests num1OverflowCheckWithSign again, not num2
            ELSE IF fraction2.sign # 1 /\ SLess(INT32MAX, num1Check)
            THEN Sum(1, Z, 0, k)
            ELSE IF OutOfInt32(cross1) THEN Sum(1, Z, 0, k)
            ELSE IF OutOfInt32(cross2) THEN Sum(1, Z, 0, k)
            ELSE IF OutOfInt32(total) THEN Sum(1, Z, 0, k)
            ELSE Stored(ToInt32(total))
        Crossed(num1Check, num2Check, cross1, cross2) ==
            Totalled(num1Check, num2Check, cross1, cross2,
                     ToInt64(SAdd(cross1, cross2)))
        Signed(num1Check, num2Check) ==
            Crossed(num1Check, num2Check,
                    ToInt64(SMul(num1Check, SInt(FALSE, fraction2.denominator))),
                    ToInt64(SMul(num2Check, SInt(FALSE, fraction1.denominator))))
    IN  Signed(SignedNumerator(fraction1), SignedNumerator(fraction2))

\* add, lines 511-667.  The both-signs-zero branch never assigns
\* result.sign, so reduce(result) at line 664 copies an uninitialised field;
\* k counts those reads.
add(fraction1, fraction2, g, k) ==
    LET Stored(sum, den) ==
            IF sum.num # Z /\ den = Z THEN RetK(fraction1, 0, k)
            ELSE RetK(reduce(Frac(sum.num, den, sum.sign)), 0, sum.k)
        Finish(sum, denCheck) ==
            IF sum.of = 1 THEN RetK(ZeroFrac, 1, k)
            ELSE IF BLess(UINT32MAX, denCheck) THEN RetK(ZeroFrac, 1, k)
            ELSE Stored(sum, Trunc32(denCheck))
    IN  IF IsZeroCell(fraction1) THEN RetK(fraction2, 0, k)
        ELSE IF IsZeroCell(fraction2) THEN RetK(fraction1, 0, k)
        ELSE Finish(IF fraction1.sign = 0 /\ fraction2.sign = 0
                    THEN UnsignedSum(fraction1, fraction2, g, k)
                    ELSE SignedSum(fraction1, fraction2, k),
                    BMul(fraction1.denominator, fraction2.denominator))

(***************************************************************************)
(* Matrices: a sequence of eqCount rows (the row pointers), each a         *)
(* sequence of eqCount+1 fractions.  Rows are numbered from 1 as in the    *)
(* public interface; column counters run from 0 as in the loops, and cell  *)
(* [r][c] of the program is m[r + 1][c + 1].                               *)
(***************************************************************************)
\* a matrix, the overFlow flag and the number of uninitialised reads so far,
\* at the return of a call
MS(m, of, k) == [m |-> m, of |-> of, k |-> k, stuck |-> FALSE]

\* the same for a call that does not return: it is in a loop it never
\* leaves, or it has read memory that cannot be read
Stuck(m, of, k) == [m |-> m, of |-> of, k |-> k, stuck |-> TRUE]

\* overFlow after an operation that may have executed overFlow = 1
Raise(of, o) == IF o = 1 THEN 1 ELSE of

\* a test of the flag written if(overFlow > 1)
OverflowAboveOne(of) == of > 1

\* the test of "if(overFlow) return" in the row loops and of
\* "if(overFlow) return OVERFLOW" in solveSystem
OverflowSet(of) == of # 0

\* the number of values of an unsigned short, the type of eqCount and of
\* the counters i, j and column
ShortRange == 65536

\* i++, j++ and column++ on an unsigned short
NextShort(counter) == (counter + 1) % ShortRange

\* the value an unsigned short parameter takes from the int passed for it
ToUShort(n) == n % ShortRange

\* the value a short int holds after it is assigned the int n: rowCounter
\* (line 879) is a short, and row + 1, row - 1, rowCounter + 1 and
\* rowCounter - 1 are computed in int and converted back
ToShort(n) ==
    ((n + ShortRange \div 2) % ShortRange) - ShortRange \div 2

\* the largest value of a short
ShortMax == ShortRange \div 2 - 1

\* a loop over an unsigned short counter whose test is counter < (eqCount+1)
\* or counter <= eqCount, made in int, is left by its test: for eqCount =
\* 65535 the test holds for every value the counter takes
ColumnsEnd(eqCount) == eqCount + 1 < ShortRange

swapRows(row1, row2, coeffPtr, eqCount) ==
    IF row1 < 1 \/ row2 < 1 \/ row1 > eqCount \/ row2 > eqCount
    THEN coeffPtr
    ELSE [coeffPtr EXCEPT ![row1] = coeffPtr[row2], ![row2] = coeffPtr[row1]]

\* lines 690-694 and 800-804 from column on.  The loop is left by its test
\* or by the return on overFlow; column++ takes 65535 to 0, and then the
\* row is gone through again.  seen holds the rows the loop had made when
\* column came back to 0: a row met there again is followed by the same
\* steps again, and the call does not return.
RECURSIVE multiplyRowFrom(_, _, _, _, _, _, _, _)
multiplyRowFrom(coeffPtr, row, multiplier, column, eqCount, of, k, seen) ==
    LET Next2(m2, of2) ==
            IF OverflowSet(of2) THEN MS(m2, of2, k)
            ELSE IF NextShort(column) # 0
            THEN multiplyRowFrom(m2, row, multiplier, NextShort(column),
                                 eqCount, of2, k, seen)
            ELSE IF m2[row] \in seen THEN Stuck(m2, of2, k)
            ELSE multiplyRowFrom(m2, row, multiplier, NextShort(column),
                                 eqCount, of2, k, seen \cup {m2[row]})
        Store(r) ==
            Next2([coeffPtr EXCEPT ![row][column + 1] = r.val],
                  Raise(of, r.of))
    IN  IF ~(column < eqCount + 1) THEN MS(coeffPtr, of, k)
        ELSE Store(multiply(coeffPtr[row][column + 1], multiplier))

multiplyMatrixRow(row, multiplier, coeffPtr, eqCount, of, k) ==
    IF row < 1 \/ row > eqCount THEN MS(coeffPtr, of, k)
    ELSE multiplyRowFrom(coeffPtr, row, multiplier, 0, eqCount, of, k, {})

\* lines 718-722 and 828-832 from column on, as multiplyRowFrom
RECURSIVE divideRowFrom(_, _, _, _, _, _, _, _)
divideRowFrom(coeffPtr, row, divisor, column, eqCount, of, k, seen) ==
    LET Next2(m2, of2) ==
            IF OverflowSet(of2) THEN MS(m2, of2, k)
            ELSE IF NextShort(column) # 0
            THEN divideRowFrom(m2, row, divisor, NextShort(column), eqCount,
                               of2, k, seen)
            ELSE IF m2[row] \in seen THEN Stuck(m2, of2, k)
            ELSE divideRowFrom(m2, row, divisor, NextShort(column), eqCount,
                               of2, k, seen \cup {m2[row]})
        Store(r) ==
            Next2([coeffPtr EXCEPT ![row][column + 1] = r.val],
                  Raise(of, r.of))
    IN  IF ~(column < eqCount + 1) THEN MS(coeffPtr, of, k)
        ELSE Store(divide(coeffPtr[row][column + 1], divisor))

divideMatrixRow(row, divisor, coeffPtr, eqCount, of, k) ==
    IF row < 1 \/ row > eqCount THEN MS(coeffPtr, of, k)
    ELSE divideRowFrom(coeffPtr, row, divisor, 0, eqCount, of, k, {})

\* lines 746-750 and 856-860 from column on, as multiplyRowFrom.  What add
\* makes of a row depends on that row, on the row added and on what its
\* uninitialised reads find; a row met again when column is back at 0 can
\* be followed by the same reads finding the same again, so that not
\* returning is one of the ways the call goes on from there, and the others
\* are those it had when the row was met first.
RECURSIVE addRowFrom(_, _, _, _, _, _, _, _, _)
addRowFrom(coeffPtr, row, rowToAdd, column, eqCount, of, g, k, seen) ==
    LET Next2(m2, of2, k2) ==
            IF OverflowSet(of2) THEN MS(m2, of2, k2)
            ELSE IF NextShort(column) # 0
            THEN addRowFrom(m2, row, rowToAdd, NextShort(column), eqCount,
                            of2, g, k2, seen)
            ELSE IF m2[row] \in seen THEN Stuck(m2, of2, k2)
            ELSE addRowFrom(m2, row, rowToAdd, NextShort(column), eqCount,
                            of2, g, k2, seen \cup {m2[row]})
        Store(r) ==
            Next2([coeffPtr EXCEPT ![row][column + 1] = r.val],
                  Raise(of, r.of), r.k)
    IN  IF ~(column < eqCount + 1) THEN MS(coeffPtr, of, k)
        ELSE Store(add(coeffPtr[row][column + 1],
                       coeffPtr[rowToAdd][column + 1], g, k))

addMatrixRows(row, rowToAdd, coeffPtr, eqCount, of, g, k) ==
    IF row < 1 \/ row > eqCount \/ rowToAdd < 1 \/ rowToAdd > eqCount
    THEN MS(coeffPtr, of, k)
    ELSE addRowFrom(coeffPtr, row, rowToAdd, 0, eqCount, of, g, k, {})

(***************************************************************************)
(* solveSystem, lines 875-1074                                             *)
(***************************************************************************)
\* lines 904-906: the working copy is filled cell by cell from the original
WorkingCopy(originalCoefficient, eqCount) ==
    [i \in 1..eqCount |->
        [j \in 1..(eqCount + 1) |-> originalCoefficient[i][j]]]

\* what a read finds at an address that cannot be read: the read ends the
\* program
Unmapped == [numerator |-> Z, denominator |-> Z, sign |-> -1]

Faults(cell) == cell.sign = -1

\* the cells of the rows in front of row 0: the short rowCounter is one of
\* -32768..-1 there, and column an unsigned short
StrayAddresses == ((-(ShortMax + 1))..(-1)) \X (0..(ShortRange - 1))

\* memory that holds cell wherever a row in front of row 0 is read
StrayOf(cell) == [address \in StrayAddresses |-> cell]

\* the cell lines 926 and 1006 read in row rowCounter: for rowCounter < 0,
\* which is not a row of the working copy, what stray holds for that
\* address
CellAt(coeffPtr, rowCounter, column, stray) ==
    IF rowCounter < 0 THEN stray[<<rowCounter, column>>]
    ELSE coeffPtr[rowCounter + 1][column + 1]

\* a call that has stopped: it does not return, or it returns because of
\* the flag
Halted(s) == s.stuck \/ OverflowSet(s.of)

\* lines 923-935, while(rowCounter < eqCount) with both sides converted to
\* int: row is the first rowCounter from the given one on whose cell in
\* this column has numerator != 0 and denominator != 0, and eqCount when
\* the loop ends without one.  rowCounter = rowCounter+1 takes 32767 to
\* -32768, which passes the test; outside tells that a row in front of row
\* 0 was read.  For eqCount >= 32768 the test holds for every rowCounter:
\* the search that has come back to first, where it began, without a cell
\* to stop at goes round again, and the call does not return.
RECURSIVE FindBelow(_, _, _, _, _, _, _)
FindBelow(coeffPtr, rowCounter, column, eqCount, stray, outside, first) ==
    LET Read(cell) ==
            IF Faults(cell)
            THEN [row |-> rowCounter, outside |-> TRUE, stuck |-> TRUE]
            ELSE IF cell.numerator # Z /\ cell.denominator # Z
            THEN [row |-> rowCounter, outside |-> outside \/ rowCounter < 0,
                  stuck |-> FALSE]
            ELSE IF ToShort(rowCounter + 1) = first
            THEN [row |-> rowCounter, outside |-> outside \/ rowCounter < 0,
                  stuck |-> TRUE]
            ELSE FindBelow(coeffPtr, ToShort(rowCounter + 1), column, eqCount,
                           stray, outside \/ rowCounter < 0, first)
    IN  IF ~(rowCounter < eqCount)
        THEN [row |-> eqCount, outside |-> outside, stuck |-> FALSE]
        ELSE Read(CellAt(coeffPtr, rowCounter, column, stray))

\* lines 951-961: INFINITE_SOLUTIONS when some row has every numerator zero
HasZeroRow(coeffPtr, eqCount) ==
    \E row \in 1..eqCount :
        \A column \in 1..(eqCount + 1) : coeffPtr[row][column].numerator = Z

\* lines 942-962, reached with column == eqCount
NoPivotStatus(coeffPtr, row, eqCount) ==
    IF IsZeroCell(coeffPtr[row + 1][eqCount + 1]) THEN INFINITE_SOLUTIONS
    ELSE IF HasZeroRow(coeffPtr, eqCount) THEN INFINITE_SOLUTIONS
    ELSE NO_SOLUTIONS

\* lines 944-961 return: the loop of line 954 is reached only when the cell
\* of line 944 is not 0/0, and is left only when ColumnsEnd
NoPivotEnds(coeffPtr, row, eqCount) ==
    IsZeroCell(coeffPtr[row + 1][eqCount + 1]) \/ ColumnsEnd(eqCount)

\* lines 921-965, entered when cell [row][column] is 0/0: rows below row are
\* searched in this column; when none qualifies the column is advanced and
\* the search repeats below row.  ret = 0 means the search ended at a row,
\* which line 929 swaps with row when its number, passed as an unsigned
\* short, is one of 1..eqCount; outside means that the search read a row
\* that is not in the working copy, and stuck that the call does not
\* return.
RECURSIVE PivotSearch(_, _, _, _, _, _)
PivotSearch(coeffPtr, row, column, eqCount, stray, outside) ==
    LET Found(f) ==
            IF f.stuck
            THEN [ret |-> 0, m |-> coeffPtr, column |-> column,
                  outside |-> f.outside, stuck |-> TRUE]
            ELSE IF f.row < eqCount
            THEN [ret |-> 0,
                  m |-> swapRows(row + 1, ToUShort(f.row + 1), coeffPtr,
                                 eqCount),
                  column |-> column, outside |-> f.outside, stuck |-> FALSE]
            ELSE IF column + 1 # eqCount
            THEN PivotSearch(coeffPtr, row, column + 1, eqCount, stray,
                             f.outside)
            ELSE IF NoPivotEnds(coeffPtr, row, eqCount)
            THEN [ret |-> NoPivotStatus(coeffPtr, row, eqCount),
                  m |-> coeffPtr, column |-> column + 1,
                  outside |-> f.outside, stuck |-> FALSE]
            ELSE [ret |-> 0, m |-> coeffPtr, column |-> column + 1,
                  outside |-> f.outside, stuck |-> TRUE]
    IN  Found(FindBelow(coeffPtr, ToShort(row + 1), column, eqCount, stray,
                        outside, ToShort(row + 1)))

\* lines 915-966: the search is entered only when cell [row][column] is 0/0;
\* otherwise that cell is the pivot
Pivot(coeffPtr, row, column, eqCount, stray, outside) ==
    IF IsZeroCell(coeffPtr[row + 1][column + 1])
    THEN PivotSearch(coeffPtr, row, column, eqCount, stray, outside)
    ELSE [ret |-> 0, m |-> coeffPtr, column |-> column, outside |-> outside,
          stuck |-> FALSE]

\* lines 976-985 and 1020-1028: flip the sign field of every cell of the row
\* that is not 0/0, for an eqCount with ColumnsEnd (i <= eqCount holds for
\* every unsigned short i otherwise)
RECURSIVE NegateFrom(_, _, _, _)
NegateFrom(coeffPtr, row, i, eqCount) ==
    IF ~(i <= eqCount) THEN coeffPtr
    ELSE IF IsZeroCell(coeffPtr[row + 1][i + 1])
    THEN NegateFrom(coeffPtr, row, i + 1, eqCount)
    ELSE NegateFrom([coeffPtr EXCEPT
                        ![row + 1][i + 1].sign = IF @ = 0 THEN 1 ELSE 0],
                    row, i + 1, eqCount)

NegateRow(coeffPtr, row, eqCount) == NegateFrom(coeffPtr, row, 0, eqCount)

\* lines 969-973
NormalizePivot(coeffPtr, row, column, eqCount, of, k) ==
    IF coeffPtr[row + 1][column + 1] = Frac(One, One, 0)
    THEN MS(coeffPtr, of, k)
    ELSE divideMatrixRow(row + 1, coeffPtr[row + 1][column + 1], coeffPtr,
                         eqCount, of, k)

\* the body of both clearing loops (lines 990-1000, 1006-1016): multiplier
\* is a copy of the cell read, and rowCounter+1 is passed to addMatrixRows
\* as an unsigned short
ClearRow(coeffPtr, row, rowCounter, column, eqCount, of, g, k, stray) ==
    LET Divided(s2, multiplier) ==
            IF Halted(s2) THEN s2
            ELSE divideMatrixRow(row + 1, multiplier, s2.m, eqCount, s2.of,
                                 s2.k)
        Added(s1, multiplier) ==
            IF Halted(s1) THEN s1
            ELSE Divided(addMatrixRows(ToUShort(rowCounter + 1), row + 1,
                                       s1.m, eqCount, s1.of, g, s1.k),
                         multiplier)
        Multiplied(multiplier) ==
            Added(multiplyMatrixRow(row + 1, multiplier, coeffPtr, eqCount,
                                    of, k),
                  multiplier)
        cell == CellAt(coeffPtr, rowCounter, column, stray)
    IN  IF Faults(cell) THEN Stuck(coeffPtr, of, k)
        ELSE IF IsZeroCell(cell) THEN MS(coeffPtr, of, k)
        ELSE Multiplied(cell)

\* lines 988-1001: for(rowCounter = row-1; rowCounter >= 0; rowCounter--)
RECURSIVE ClearAbove(_, _, _, _, _, _, _, _, _)
ClearAbove(coeffPtr, row, rowCounter, column, eqCount, of, g, k, stray) ==
    LET Cleared(s) ==
            IF Halted(s) THEN s
            ELSE ClearAbove(s.m, row, ToShort(rowCounter - 1), column,
                            eqCount, s.of, g, s.k, stray)
    IN  IF ~(rowCounter >= 0) THEN MS(coeffPtr, of, k)
        ELSE Cleared(ClearRow(coeffPtr, row, rowCounter, column, eqCount, of,
                              g, k, stray))

\* a matrix, the flag, the number of uninitialised reads so far and whether
\* the call returns, with whether a row that is not in the working copy was
\* read
MSO(s, outside) ==
    [m |-> s.m, of |-> s.of, k |-> s.k, stuck |-> s.stuck,
     outside |-> outside]

\* lines 1004-1017: for(rowCounter = row+1; rowCounter < eqCount; rowCounter++)
\* with the test made in int.  rowCounter++ takes 32767 to -32768, which
\* passes the test, and line 1006 reads a row in front of row 0.  For
\* eqCount >= 32768 the test holds for every rowCounter and the loop is left
\* only by a return on overFlow; seen holds the matrices the loop had made
\* when rowCounter went from 32767 to -32768, and a matrix met there again
\* can be followed by the same steps again, so that the call does not
\* return.
RECURSIVE ClearBelow(_, _, _, _, _, _, _, _, _, _, _)
ClearBelow(coeffPtr, row, rowCounter, column, eqCount, of, g, k, stray, outside, seen) ==
    LET Cleared(s) ==
            IF Halted(s) THEN MSO(s, outside \/ rowCounter < 0)
            ELSE IF rowCounter # ShortMax
            THEN ClearBelow(s.m, row, ToShort(rowCounter + 1), column,
                            eqCount, s.of, g, s.k, stray,
                            outside \/ rowCounter < 0, seen)
            ELSE IF s.m \in seen
            THEN MSO(Stuck(s.m, s.of, s.k), outside)
            ELSE ClearBelow(s.m, row, ToShort(rowCounter + 1), column,
                            eqCount, s.of, g, s.k, stray, outside,
                            seen \cup {s.m})
    IN  IF ~(rowCounter < eqCount) THEN MSO(MS(coeffPtr, of, k), outside)
        ELSE Cleared(ClearRow(coeffPtr, row, rowCounter, column, eqCount, of,
                              g, k, stray))

\* lines 968-1028 for one pivot.  of set in the result means that the loop
\* returned OVERFLOW at that point, stuck that the call does not return,
\* and outside that a row that is not in the working copy had been read by
\* then.  The loop of line 976 is left only when ColumnsEnd, and the one of
\* line 1020 is reached only then.
Eliminate(coeffPtr, row, column, eqCount, of, g, k, stray, outside) ==
    LET Below(s3) ==
            IF Halted(s3) THEN s3
            ELSE MSO(MS(NegateRow(s3.m, row, eqCount), s3.of, s3.k), s3.outside)
        Above(s2) ==
            IF Halted(s2) THEN MSO(s2, outside)
            ELSE Below(ClearBelow(s2.m, row, ToShort(row + 1), column,
                                  eqCount, s2.of, g, s2.k, stray, outside,
                                  {}))
        Normalized(s1) ==
            IF Halted(s1) THEN MSO(s1, outside)
            ELSE IF ~ColumnsEnd(eqCount)
            THEN MSO(Stuck(s1.m, s1.of, s1.k), outside)
            ELSE Above(ClearAbove(NegateRow(s1.m, row, eqCount), row,
                                  ToShort(row - 1), column, eqCount, s1.of,
                                  g, s1.k, stray))
    IN  Normalized(NormalizePivot(coeffPtr, row, column, eqCount, of, k))

\* lines 1057-1061: the total of one row of the original matrix
RECURSIVE RowTotal(_, _, _, _, _, _, _, _, _)
RowTotal(originalCoefficient, coeffPtr, i, j, solutionCheck, eqCount, of, g, k) ==
    LET Next2(a, of2) ==
            IF OverflowSet(of2) THEN RetK(a.val, of2, a.k)
            ELSE RowTotal(originalCoefficient, coeffPtr, i, j + 1, a.val,
                          eqCount, of2, g, a.k)
        Added(p, a) == Next2(a, Raise(Raise(of, p.of), a.of))
        Multiplied(p) == Added(p, add(solutionCheck, p.val, g, k))
    IN  IF j >= eqCount THEN RetK(solutionCheck, of, k)
        ELSE Multiplied(multiply(originalCoefficient[i + 1][j + 1],
                                 coeffPtr[j + 1][eqCount + 1]))

\* lines 1051-1067.  solutionCheck is reset to 0/0 in numerator and
\* denominator only (lines 1054-1055); stale is the sign field it still
\* carries, which add never reads because it returns fraction2 for a 0/0
\* fraction1.
RECURSIVE Verify(_, _, _, _, _, _, _, _)
Verify(originalCoefficient, coeffPtr, i, stale, eqCount, of, g, k) ==
    LET Compared(t) ==
            IF OverflowSet(t.of)
            THEN [status |-> OVERFLOW, of |-> t.of, k |-> t.k]
            ELSE IF t.val # originalCoefficient[i + 1][eqCount + 1]
            THEN [status |-> NO_SOLUTIONS, of |-> t.of, k |-> t.k]
            ELSE Verify(originalCoefficient, coeffPtr, i + 1, t.val.sign,
                        eqCount, t.of, g, t.k)
    IN  IF i >= eqCount THEN [status |-> SOLVED, of |-> of, k |-> k]
        ELSE Compared(RowTotal(originalCoefficient, coeffPtr, i, 0,
                               Frac(Z, Z, stale), eqCount, of, g, k))

\* lines 1036-1068
FinalCheck(originalCoefficient, coeffPtr, eqCount, of, g, k) ==
    IF IsZeroCell(coeffPtr[eqCount][eqCount])
    THEN [status |-> IF IsZeroCell(coeffPtr[eqCount][eqCount + 1])
                     THEN INFINITE_SOLUTIONS ELSE NO_SOLUTIONS,
          of |-> of, k |-> k]
    ELSE Verify(originalCoefficient, coeffPtr, 0, GarbageAt(g, k), eqCount,
                of, g, k)

\* lines 912-1033: while(column < eqCount); the result is the status
\* returned, the flag, the working copy at the return and the number of
\* uninitialised reads the call made.  outside means that the call read a
\* row that is not in the working copy, and stuck that it does not return,
\* with the flag and the working copy as they stood when it stopped.
RECURSIVE SolveLoop(_, _, _, _, _, _, _, _, _, _)
SolveLoop(originalCoefficient, coeffPtr, row, column, eqCount, of, g, k, stray, outside) ==
    LET Checked(f) ==
            [status |-> f.status, of |-> f.of, m |-> coeffPtr,
             outside |-> outside, k |-> f.k, stuck |-> FALSE]
        Eliminated(ps, e) ==
            IF e.stuck
            THEN [status |-> 0, of |-> e.of, m |-> e.m,
                  outside |-> e.outside, k |-> e.k, stuck |-> TRUE]
            ELSE IF OverflowSet(e.of)
            THEN [status |-> OVERFLOW, of |-> e.of, m |-> e.m,
                  outside |-> e.outside, k |-> e.k, stuck |-> FALSE]
            ELSE SolveLoop(originalCoefficient, e.m, row + 1, ps.column + 1,
                           eqCount, e.of, g, e.k, stray, e.outside)
        Pivoted(ps) ==
            IF ps.stuck
            THEN [status |-> 0, of |-> of, m |-> ps.m,
                  outside |-> ps.outside, k |-> k, stuck |-> TRUE]
            ELSE IF ps.ret # 0
            THEN [status |-> ps.ret, of |-> of, m |-> ps.m,
                  outside |-> ps.outside, k |-> k, stuck |-> FALSE]
            ELSE Eliminated(ps, Eliminate(ps.m, row, ps.column, eqCount, of,
                                          g, k, stray, ps.outside))
    IN  IF column >= eqCount
        THEN Checked(FinalCheck(originalCoefficient, coeffPtr, eqCount, of,
                                g, k))
        ELSE Pivoted(Pivot(coeffPtr, row, column, eqCount, stray, outside))

\* the solution vector written at every return the checks of lines
\* 1036-1067 lead to
SolutionWrittenBeforeChecks(returned) == returned \in {SOLVED, NO_SOLUTIONS}

\* lines 1070-1071 lie behind every return of a status other than SOLVED
SolutionWritten(returned) == returned = SOLVED

\* count cells malloc returned of which none has been assigned: <<>> stands
\* for an element that holds nothing the program stored
Unassigned(count) == [i \in 1..count |-> <<>>]

\* the working copy while the loop of line 905 goes round in row 0: the
\* other rows are allocated and nothing is copied to them
CopyInFirstRow(originalCoefficient, eqCount) ==
    [i \in 1..eqCount |->
        IF i = 1 THEN originalCoefficient[1] ELSE Unassigned(eqCount + 1)]

\* solveSystem for eqCount >= 1 with every allocation succeeding: line 884
\* clears overFlow, the copy of lines 904-906 is made, the loop runs on the
\* working copy, and lines 1070-1071 write the solution vector before
\* SOLVED is returned.  m is the working copy at the return and k the
\* number of uninitialised reads made.  The loop of line 905 is left only
\* when ColumnsEnd: the call on 65535 equations stays in it.
solveSystem(originalCoefficient, solutionCoefficient, eqCount, g, stray) ==
    LET Returned(r) ==
            [status |-> r.status, of |-> r.of, m |-> r.m,
             outside |-> r.outside, k |-> r.k, stuck |-> r.stuck,
             sol |-> IF ~r.stuck /\ SolutionWritten(r.status)
                     THEN [i \in 1..eqCount |-> r.m[i][eqCount + 1]]
                     ELSE solutionCoefficient]
    IN  IF ColumnsEnd(eqCount)
        THEN Returned(SolveLoop(originalCoefficient,
                                WorkingCopy(originalCoefficient, eqCount),
                                0, 0, eqCount, 0, g, 0, stray, FALSE))
        ELSE [status |-> 0, of |-> 0,
              m |-> CopyInFirstRow(originalCoefficient, eqCount),
              outside |-> FALSE, k |-> 0, stuck |-> TRUE,
              sol |-> solutionCoefficient]

\* every way this solveSystem call can go, from the reads listed in g on:
\* the call is followed with g, and where it makes a read g has no entry
\* for, with g extended by each value that read can find
RECURSIVE SolveRuns(_, _, _, _, _)
SolveRuns(originalCoefficient, solutionCoefficient, eqCount, g, stray) ==
    LET Grown(r) ==
            IF Covered(g, r.k) THEN {r}
            ELSE UNION {SolveRuns(originalCoefficient, solutionCoefficient,
                                  eqCount, Append(g, found), stray) :
                          found \in Indeterminate}
    IN  Grown(solveSystem(originalCoefficient, solutionCoefficient, eqCount,
                          g, stray))

\* the same for a call of the public addMatrixRows
RECURSIVE AddReads(_, _, _, _, _, _)
AddReads(row, rowToAdd, coeffPtr, eqCount, of, g) ==
    LET Grown(s) ==
            IF Covered(g, s.k) THEN {g}
            ELSE UNION {AddReads(row, rowToAdd, coeffPtr, eqCount, of,
                                 Append(g, found)) :
                          found \in Indeterminate}
    IN  Grown(addMatrixRows(row, rowToAdd, coeffPtr, eqCount, of, g, 0))

(***************************************************************************)
(* The eqsolver object                                                     *)
(***************************************************************************)
VARIABLES
    eqCount,              \* unsigned short eqCount
    coefficient,          \* the altered matrix; <<>> is the NULL pointer
    originalCoefficient,  \* the original matrix; <<>> is the NULL pointer
    solutionCoefficient,  \* the solution vector; <<>> is the NULL pointer
    overFlow,             \* the public overflow flag
    work,                 \* the working copy the last solveSystem left behind
    status,               \* what the last solveSystem returned, 0 before any
    solves,               \* status and solution vector at the return of the
                          \* last two solveSystem calls made since the
                          \* original matrix was last written or resized
    last,                 \* the last call made and its arguments
    ops,                  \* the number of calls made
    script,               \* the calls the client goes on to make: for each
                          \* one, the set of operations it may be
    blocks,               \* the number of blocks malloc returned to the
                          \* object that free was not called on
    outside,              \* TRUE when the last solveSystem read a cell
                          \* outside the grid of its working copy
    pc,                   \* where a call that has not returned is: "copy"
                          \* and "eliminate" in a solveSystem call
                          \* followed statement by statement, "stuck" in
                          \* a call that does not return; "rest" when
                          \* every call has returned
    copyI,                \* unsigned short i of that call
    copyJ                 \* unsigned short j of that call

vars == <<eqCount, coefficient, originalCoefficient, solutionCoefficient,
          overFlow, work, status, solves, last, ops, script, blocks, outside,
          pc, copyI, copyJ>>

\* lines 52-56 and 73-74: the three arrays and two rows per equation
SetSystemEqCountBlocks(count) == 3 + 2 * count

\* lines 888 and 896: the row pointers and one row per equation; no return
\* of solveSystem is preceded by a free
SolveSystemBlocks(count) == 1 + count

\* lines 1090-1110: the solution vector, and the rows and row pointers of
\* the two member matrices, each behind a test of its pointer
CleanupBlocks(solution, altered, original, count) ==
    (IF solution = <<>> THEN 0 ELSE 1)
    + (IF altered = <<>> THEN 0 ELSE count + 1)
    + (IF original = <<>> THEN 0 ELSE count + 1)

\* lines 1036-1037: the row and column index, as the code counts them, of
\* the cell the check after the loop reads first
FinalCheckCell(count) == <<count - 1, count - 1>>

\* the cells of a matrix of count rows of count + 1 fractions
InGrid(cell, count) ==
    /\ cell[1] \in 0..(count - 1)
    /\ cell[2] \in 0..count

\* the largest count passed to setSystemEqCount
MaxCount == 2

\* setCoefficient and setCoefficientFraction are called with short values in
\* -MaxVal..MaxVal
MaxVal == 1

\* the number of calls made on a newly constructed object
MaxOps == 3

Counts == 0..MaxCount

\* row and column arguments, the out of bounds 0 and eqCount + 2 included
Indices == 0..(MaxCount + 2)

Values == (-MaxVal)..MaxVal

Abs(v) == IF v < 0 THEN -v ELSE v

\* struct fraction arguments of the public row operations
Multipliers ==
    {Frac(NatOf(2), One, 0), Frac(One, NatOf(2), 1), ZeroFrac,
     Frac(NatOf(262144), One, 0), Frac(TwoTo31, One, 0)}

\* lines 71-87: every cell of a newly allocated matrix is 0/0 with sign 0
ZeroMatrix(count) == [i \in 1..count |-> [j \in 1..(count + 1) |-> ZeroFrac]]

ZeroVector(count) == [i \in 1..count |-> ZeroFrac]

\* lines 112-137: the cell setCoefficient stores for value
CellOfValue(value) ==
    Frac(NatOf(Abs(value)), IF value = 0 THEN Z ELSE One,
         IF value < 0 THEN 1 ELSE 0)

\* lines 163-206: the cell setCoefficientFraction stores
CellOfFraction(numerator, denominator) ==
    Frac(IF denominator = 0 THEN Z ELSE NatOf(Abs(numerator)),
         IF denominator = 0 THEN Z ELSE NatOf(Abs(denominator)),
         IF numerator < 0
         THEN (IF denominator < 0 THEN 0 ELSE 1)
         ELSE (IF denominator < 0 THEN 1 ELSE 0))

\* "Verify Matrix Bounds" of the two setters
InBounds(row, column, count) ==
    ~(row > count \/ column > count + 1 \/ row < 1 \/ column < 1)

\* the client's next call is operation: it is counted and taken off the script
Call(operation) ==
    /\ script # <<>>
    /\ operation \in Head(script)
    /\ script' = Tail(script)
    /\ ops' = ops + 1

Operations ==
    {"setSystemEqCount", "setCoefficient", "setCoefficientFraction",
     "solveSystem", "cleanup", "swapRows", "multiplyMatrixRow",
     "divideMatrixRow", "addMatrixRows"}

\* the object after its constructor (eqsolver.h lines 90-97), before MaxOps
\* calls of any kind
Init ==
    /\ eqCount = 0
    /\ coefficient = <<>>
    /\ originalCoefficient = <<>>
    /\ solutionCoefficient = <<>>
    /\ overFlow = 0
    /\ work = <<>>
    /\ status = 0
    /\ solves = <<>>
    /\ last = <<"eqsolver">>
    /\ ops = 0
    /\ script = [i \in 1..MaxOps |-> Operations]
    /\ blocks = 0
    /\ outside = FALSE
    /\ pc = "rest"
    /\ copyI = 0
    /\ copyJ = 0

\* setSystemEqCount with every malloc succeeding.  count == 0 returns 1
\* before anything is assigned; otherwise the three arrays are replaced by
\* new zero-filled ones and the old ones are not freed.
SetSystemEqCount(count) ==
    /\ Call("setSystemEqCount")
    /\ IF count = 0
       THEN UNCHANGED <<eqCount, coefficient, originalCoefficient,
                        solutionCoefficient, solves, blocks>>
       ELSE /\ eqCount' = count
            /\ blocks' = blocks + SetSystemEqCountBlocks(count)
            /\ coefficient' = ZeroMatrix(count)
            /\ originalCoefficient' = ZeroMatrix(count)
            /\ solutionCoefficient' = ZeroVector(count)
            /\ solves' = <<>>
    /\ last' = <<"setSystemEqCount", count, 1>>
    /\ UNCHANGED <<overFlow, work, status, outside, pc, copyI, copyJ>>

\* the members setSystemEqCount allocates at lines 52-56
Arrays == {"coefficient", "originalCoefficient", "solutionCoefficient"}

\* the members it allocates a row for at lines 73-74
Matrices == {"coefficient", "originalCoefficient"}

\* a member matrix at the return 0 of line 78, taken in the pass for row
\* (from 1) of the loop of lines 71-87: the rows before it are allocated
\* and zero-filled, its own row is NULL when its malloc failed and
\* allocated but not zero-filled otherwise, and the row pointers after it
\* are not assigned
PartMatrix(count, row, isNull) ==
    [i \in 1..count |->
        IF i < row THEN [j \in 1..(count + 1) |-> ZeroFrac]
        ELSE IF i = row /\ ~isNull THEN Unassigned(count + 1)
        ELSE <<>>]

\* setSystemEqCount when malloc returns NULL for the members in failed.
\* row = 0: one of the three arrays of lines 52-56 is NULL and 0 is
\* returned at line 60, after eqCount was stored and before anything is
\* zero-filled.  row >= 1: the arrays were obtained, the solution vector
\* was zero-filled, and a malloc of lines 73-74 failed in the pass for that
\* row, so that 0 is returned at line 78.  Nothing obtained is freed.  The
\* caller is told by the 0 and by the comment of lines 60-61 that the
\* object cannot be used, and makes no further call.
SetSystemEqCountMemoryError(count, row, failed) ==
    /\ script # <<>>
    /\ "setSystemEqCount" \in Head(script)
    /\ count >= 1
    /\ row \in 0..count
    /\ failed # {}
    /\ failed \subseteq (IF row = 0 THEN Arrays ELSE Matrices)
    /\ script' = <<>>
    /\ ops' = ops + 1
    /\ eqCount' = count
    /\ coefficient' =
           IF row = 0
           THEN (IF "coefficient" \in failed THEN <<>>
                 ELSE Unassigned(count))
           ELSE PartMatrix(count, row, "coefficient" \in failed)
    /\ originalCoefficient' =
           IF row = 0
           THEN (IF "originalCoefficient" \in failed THEN <<>>
                 ELSE Unassigned(count))
           ELSE PartMatrix(count, row, "originalCoefficient" \in failed)
    /\ solutionCoefficient' =
           IF row = 0
           THEN (IF "solutionCoefficient" \in failed THEN <<>>
                 ELSE Unassigned(count))
           ELSE ZeroVector(count)
    /\ blocks' = blocks + (IF row = 0 THEN 3 ELSE 3 + 2 * row)
                        - Cardinality(failed)
    /\ solves' = <<>>
    /\ last' = <<"setSystemEqCount", count, 0>>
    /\ UNCHANGED <<overFlow, work, status, outside, pc, copyI, copyJ>>

SetCoefficient(row, column, value) ==
    /\ Call("setCoefficient")
    /\ IF InBounds(row, column, eqCount)
       THEN /\ coefficient' =
                   [coefficient EXCEPT ![row][column] = CellOfValue(value)]
            /\ originalCoefficient' =
                   [originalCoefficient EXCEPT
                       ![row][column] = CellOfValue(value)]
            /\ solves' = <<>>
       ELSE UNCHANGED <<coefficient, originalCoefficient, solves>>
    /\ last' = <<"setCoefficient", row, column, value>>
    /\ UNCHANGED <<eqCount, solutionCoefficient, overFlow, work, status,
                   blocks, outside, pc, copyI, copyJ>>

SetCoefficientFraction(row, column, numerator, denominator) ==
    /\ Call("setCoefficientFraction")
    /\ IF InBounds(row, column, eqCount)
       THEN /\ coefficient' =
                   [coefficient EXCEPT
                       ![row][column] = CellOfFraction(numerator, denominator)]
            /\ originalCoefficient' =
                   [originalCoefficient EXCEPT
                       ![row][column] = CellOfFraction(numerator, denominator)]
            /\ solves' = <<>>
       ELSE UNCHANGED <<coefficient, originalCoefficient, solves>>
    /\ last' = <<"setCoefficientFraction", row, column, numerator, denominator>>
    /\ UNCHANGED <<eqCount, solutionCoefficient, overFlow, work, status,
                   blocks, outside, pc, copyI, copyJ>>

\* an elimination that ran on the altered matrix of the object
MemberStorage == "coefficient"

\* the storage the elimination of solveSystem writes: the matrix allocated
\* at lines 888-901 and filled from the original at lines 904-906
SolveStorage == "coeffPtr"

\* the last entry of history followed by outcome
LastTwo(history, outcome) ==
    IF history = <<>> THEN <<outcome>>
    ELSE <<history[Len(history)], outcome>>

\* 2^32 - 1
Max32 == BSub(BMul(TwoTo31, NatOf(2)), One)

\* what the rows in front of row 0 of the working copy are taken to hold
\* when they are read: 0/0, 1/1, the largest numerator over 1, or nothing
\* that can be read
StrayCells ==
    {ZeroFrac, Frac(One, One, 0), Frac(Max32, One, 0), Unmapped}

\* they are read only by a call whose rowCounter passes 32767
StrayFor(count) == IF count > ShortMax THEN StrayCells ELSE {ZeroFrac}

\* solveSystem on a dimensioned object; r is one of the ways the call can
\* go.  A call that does not return leaves the members as they were, and
\* the working copy and the flag as they stood when it stopped.
SolveSystem(r) ==
    LET Returned ==
            /\ script' = Tail(script)
            /\ pc' = pc
            /\ status' = r.status
            /\ solutionCoefficient' = r.sol
            /\ coefficient' =
                   IF SolveStorage = "coefficient" THEN r.m ELSE coefficient
            /\ originalCoefficient' =
                   IF SolveStorage = "originalCoefficient" THEN r.m
                   ELSE originalCoefficient
            /\ solves' = LastTwo(solves, [status |-> r.status, sol |-> r.sol])
        NotReturned ==
            /\ script' = <<>>
            /\ pc' = "stuck"
            /\ status' = 0
            /\ UNCHANGED <<coefficient, originalCoefficient,
                           solutionCoefficient, solves>>
    IN  /\ script # <<>>
        /\ "solveSystem" \in Head(script)
        /\ eqCount >= 1
        /\ ops' = ops + 1
        /\ IF r.stuck THEN NotReturned ELSE Returned
        /\ overFlow' = r.of
        /\ work' = r.m
        /\ outside' = (r.outside \/ ~InGrid(FinalCheckCell(eqCount), eqCount))
        /\ last' = <<"solveSystem", overFlow>>
        /\ blocks' = blocks + SolveSystemBlocks(eqCount)
        /\ UNCHANGED <<eqCount, copyI, copyJ>>

\* solveSystem when a malloc of lines 888-896 returns NULL after got blocks
\* were obtained: MEMORY_ERROR is returned at line 891 or 900
SolveSystemMemoryError(got) ==
    /\ Call("solveSystem")
    /\ got <= eqCount
    /\ overFlow' = 0
    /\ status' = MEMORY_ERROR
    /\ work' = <<>>
    /\ blocks' = blocks + got
    /\ outside' = FALSE
    /\ last' = <<"solveSystem", overFlow>>
    /\ UNCHANGED <<eqCount, coefficient, originalCoefficient,
                   solutionCoefficient, solves, pc, copyI, copyJ>>

\* what solveSystem can do on an object of no equations once malloc(0) has
\* returned a block: no loop runs and line 1036 reads row -1 of the working
\* copy, after which the call returns one of these or, for 0, does not
\* return
EmptyOutcomes == {0, SOLVED, NO_SOLUTIONS, INFINITE_SOLUTIONS}

SolveEmptySystem(outcome) ==
    /\ script # <<>>
    /\ "solveSystem" \in Head(script)
    /\ eqCount = 0
    /\ script' = IF outcome = 0 THEN <<>> ELSE Tail(script)
    /\ pc' = IF outcome = 0 THEN "stuck" ELSE pc
    /\ ops' = ops + 1
    /\ overFlow' = 0
    /\ status' = outcome
    /\ work' = <<>>
    /\ blocks' = blocks + SolveSystemBlocks(eqCount)
    /\ outside' = ~InGrid(FinalCheckCell(eqCount), eqCount)
    /\ last' = <<"solveSystem", overFlow>>
    /\ UNCHANGED <<eqCount, coefficient, originalCoefficient,
                   solutionCoefficient, solves, copyI, copyJ>>

Cleanup ==
    /\ Call("cleanup")
    /\ eqCount' = 0
    /\ coefficient' = <<>>
    /\ originalCoefficient' = <<>>
    /\ solutionCoefficient' = <<>>
    /\ overFlow' = 0
    /\ solves' = <<>>
    /\ last' = <<"cleanup">>
    /\ blocks' = blocks - CleanupBlocks(solutionCoefficient, coefficient,
                                        originalCoefficient, eqCount)
    /\ UNCHANGED <<work, status, outside, pc, copyI, copyJ>>

\* the public row operations act on the altered matrix with the flag as it
\* stands
SwapRows(row1, row2) ==
    /\ Call("swapRows")
    /\ coefficient' = swapRows(row1, row2, coefficient, eqCount)
    /\ last' = <<"swapRows", row1, row2>>
    /\ UNCHANGED <<eqCount, originalCoefficient, solutionCoefficient, overFlow,
                   work, status, solves, blocks, outside, pc, copyI, copyJ>>

\* the client may call operation next
Calls(operation) == script # <<>> /\ operation \in Head(script)

\* the client's call goes the way s: the altered matrix and the flag are as
\* the call made them, and the client goes on to its next call when this
\* one returns
RowCall(s) ==
    /\ script' = IF s.stuck THEN <<>> ELSE Tail(script)
    /\ pc' = IF s.stuck THEN "stuck" ELSE pc
    /\ ops' = ops + 1
    /\ coefficient' = s.m
    /\ overFlow' = s.of

MultiplyMatrixRow(row, multiplier) ==
    /\ Calls("multiplyMatrixRow")
    /\ \E s \in {multiplyMatrixRow(row, multiplier, coefficient, eqCount,
                                   overFlow, 0)} :
           RowCall(s)
    /\ last' = <<"multiplyMatrixRow", row, multiplier>>
    /\ UNCHANGED <<eqCount, originalCoefficient, solutionCoefficient,
                   work, status, solves, blocks, outside, copyI, copyJ>>

DivideMatrixRow(row, divisor) ==
    /\ Calls("divideMatrixRow")
    /\ \E s \in {divideMatrixRow(row, divisor, coefficient, eqCount,
                                 overFlow, 0)} :
           RowCall(s)
    /\ last' = <<"divideMatrixRow", row, divisor>>
    /\ UNCHANGED <<eqCount, originalCoefficient, solutionCoefficient,
                   work, status, solves, blocks, outside, copyI, copyJ>>

AddMatrixRows(row, rowToAdd, g) ==
    /\ Calls("addMatrixRows")
    /\ \E s \in {addMatrixRows(row, rowToAdd, coefficient, eqCount,
                               overFlow, g, 0)} :
           Covered(g, s.k) /\ RowCall(s)
    /\ last' = <<"addMatrixRows", row, rowToAdd>>
    /\ UNCHANGED <<eqCount, originalCoefficient, solutionCoefficient,
                   work, status, solves, blocks, outside, copyI, copyJ>>

\* the ways the solveSystem call the client makes next can go, for each
\* content of the memory in front of its working copy
SolveOutcomes ==
    IF script # <<>> /\ "solveSystem" \in Head(script) /\ eqCount >= 1
    THEN UNION {SolveRuns(originalCoefficient, solutionCoefficient,
                          eqCount, <<>>, StrayOf(cell)) :
                  cell \in StrayFor(eqCount)}
    ELSE {}

\* the same for the addMatrixRows call the client makes next
AddOracles(row, rowToAdd) ==
    IF script # <<>> /\ "addMatrixRows" \in Head(script)
    THEN AddReads(row, rowToAdd, coefficient, eqCount, overFlow, <<>>)
    ELSE {}

Next ==
    \/ \E count \in Counts : SetSystemEqCount(count)
    \/ \E count \in Counts, row \in Counts, failed \in SUBSET Arrays :
           SetSystemEqCountMemoryError(count, row, failed)
    \/ \E row \in Indices, column \in Indices, value \in Values :
           SetCoefficient(row, column, value)
    \/ \E row \in Indices, column \in Indices,
          numerator \in Values, denominator \in Values :
           SetCoefficientFraction(row, column, numerator, denominator)
    \/ \E r \in SolveOutcomes : SolveSystem(r)
    \/ \E got \in Counts : SolveSystemMemoryError(got)
    \/ \E outcome \in EmptyOutcomes : SolveEmptySystem(outcome)
    \/ Cleanup
    \/ \E row1 \in Indices, row2 \in Indices : SwapRows(row1, row2)
    \/ \E row \in Indices, multiplier \in Multipliers :
           MultiplyMatrixRow(row, multiplier)
    \/ \E row \in Indices, divisor \in Multipliers :
           DivideMatrixRow(row, divisor)
    \/ \E row \in Indices, rowToAdd \in Indices :
           \E g \in AddOracles(row, rowToAdd) :
               AddMatrixRows(row, rowToAdd, g)

Spec == Init /\ [][Next]_vars

(***************************************************************************)
(* Populated systems: the object after setSystemEqCount(N) and one         *)
(* setCoefficient call per cell                                            *)
(***************************************************************************)
\* the largest value of a short, the type of setCoefficient's value
BigVal == 32767

\* the number of equations of the 0/1 systems
MaxN == 3

\* the number of cells of a 0/1 system that hold 1
MaxOnes == 4

\* the matrix setCoefficient builds from rows of short values
SystemOf(vals) ==
    [i \in 1..Len(vals) |->
        [j \in 1..(Len(vals) + 1) |-> CellOfValue(vals[i][j])]]

\* the three systems spec.md lists with their expected results
UniqueExample == << <<2, 1, 5>>, <<1, -1, 1>> >>

DependentExample == << <<1, 1, 2>>, <<2, 2, 4>> >>

ContradictoryExample == << <<1, 1, 2>>, <<1, 1, 5>> >>

\* a system whose verification multiplies 32768/1 by 524288/181
WrapExample == << <<1024, 2, 0>>, <<181, -32768, 1024>> >>

\* a system whose elimination completes, with x = -1073676288/32767 and
\* y = 32767/1, and whose verification overflows in the multiply of line
\* 1059
OverflowExample == << <<0, 1, BigVal>>, <<BigVal, BigVal, 1>> >>

\* a system whose second pivot is 1073676288/32767: the divideMatrixRow of
\* line 971 that normalizes its row overflows
NormalizeOverflowExample == << <<BigVal, 1, BigVal>>, <<1, BigVal, 1>> >>

\* a system whose first row is 1/1 1/1 1/32767 when the column above the
\* second pivot is cleared: the addMatrixRows of line 997 overflows on the
\* constant term
EliminateOverflowExample ==
    << <<BigVal, BigVal, 1>>, <<1, -BigVal - 1, BigVal>> >>

\* a system in which that addMatrixRows succeeds and the divideMatrixRow of
\* line 999, which restores the pivot row, overflows
RestoreOverflowExample == << <<3, BigVal, 1>>, <<BigVal, 5, 1>> >>

Examples ==
    {UniqueExample, DependentExample, ContradictoryExample, WrapExample,
     OverflowExample}

\* every system of two equations with coefficients in Values
DenseSystems == [1..2 -> [1..3 -> Values]]

\* the subsets of lo..hi of at most k elements
RECURSIVE SubsetsUpTo(_, _, _)
SubsetsUpTo(lo, hi, k) ==
    IF k = 0 \/ lo > hi THEN {{}}
    ELSE SubsetsUpTo(lo + 1, hi, k)
         \cup {s \cup {lo} : s \in SubsetsUpTo(lo + 1, hi, k - 1)}

\* every system of count equations with coefficients 0 and 1, at most
\* MaxOnes of them 1
SparseSystems(count) ==
    {[i \in 1..count |->
         [j \in 1..(count + 1) |->
             IF (i - 1) * (count + 1) + j \in s THEN 1 ELSE 0]] :
       s \in SubsetsUpTo(1, count * (count + 1), MaxOnes)}

\* every system of one equation with coefficients in Values or BigVal
SingleSystems == [1..1 -> [1..2 -> Values \cup {BigVal}]]

SolveSystems ==
    Examples \cup DenseSystems \cup UNION {SparseSystems(n) : n \in 1..MaxN}

ResolveSystems ==
    {UniqueExample, OverflowExample, NormalizeOverflowExample,
     EliminateOverflowExample, RestoreOverflowExample} \cup SingleSystems

Populated(systems, calls) ==
    \E vals \in systems :
        /\ eqCount = Len(vals)
        /\ coefficient = SystemOf(vals)
        /\ originalCoefficient = SystemOf(vals)
        /\ solutionCoefficient = ZeroVector(Len(vals))
        /\ overFlow = 0
        /\ work = <<>>
        /\ status = 0
        /\ solves = <<>>
        /\ last = <<"setCoefficient", Len(vals), Len(vals) + 1,
                    vals[Len(vals)][Len(vals) + 1]>>
        /\ ops = 0
        /\ script = calls
        /\ blocks = SetSystemEqCountBlocks(Len(vals))
        /\ outside = FALSE
        /\ pc = "rest"
        /\ copyI = 0
        /\ copyJ = 0

\* one solveSystem call on a populated system
SolveInit == Populated(SolveSystems, << {"solveSystem"} >>)

SolveNext == \E r \in SolveOutcomes : SolveSystem(r)

SolveSpec == SolveInit /\ [][SolveNext]_vars

RowOperations ==
    {"swapRows", "multiplyMatrixRow", "divideMatrixRow", "addMatrixRows"}

\* solveSystem, then a public row operation or solveSystem, then solveSystem;
\* a malloc of a solveSystem call may fail
ResolveInit ==
    Populated(ResolveSystems,
              << {"solveSystem"}, RowOperations \cup {"solveSystem"},
                 {"solveSystem"} >>)

ResolveNext ==
    \/ \E r \in SolveOutcomes : SolveSystem(r)
    \/ \E got \in Counts : SolveSystemMemoryError(got)
    \/ \E row1 \in 1..eqCount, row2 \in 1..eqCount : SwapRows(row1, row2)
    \/ \E row \in 1..eqCount, multiplier \in Multipliers :
           MultiplyMatrixRow(row, multiplier)
    \/ \E row \in 1..eqCount, divisor \in Multipliers :
           DivideMatrixRow(row, divisor)
    \/ \E row \in 1..eqCount, rowToAdd \in 1..eqCount :
           \E g \in AddOracles(row, rowToAdd) :
               AddMatrixRows(row, rowToAdd, g)

ResolveSpec == ResolveInit /\ [][ResolveNext]_vars

\* one public multiplyMatrixRow or divideMatrixRow on a one-equation system
RowOpInit ==
    Populated(SingleSystems, << {"multiplyMatrixRow", "divideMatrixRow"} >>)

RowOpNext ==
    \/ \E row \in Indices, multiplier \in Multipliers :
           MultiplyMatrixRow(row, multiplier)
    \/ \E row \in Indices, divisor \in Multipliers :
           DivideMatrixRow(row, divisor)

RowOpSpec == RowOpInit /\ [][RowOpNext]_vars

(***************************************************************************)
(* One equation entered with setCoefficientFraction, then solveSystem      *)
(***************************************************************************)
\* the numerator and denominator arguments: the numerators of Values and 2,
\* over 1, 2 and 4, so that 2/4 and 2/2 are among the fractions entered
FractionEntries ==
    {<<numerator, denominator>> :
        numerator \in Values \cup {2}, denominator \in {1, 2, 4}}

\* the object after setSystemEqCount(1), setCoefficientFraction(1, 1, ...)
\* and setCoefficientFraction(1, 2, ...)
FractionInit ==
    \E p \in FractionEntries, q \in FractionEntries :
        /\ eqCount = 1
        /\ coefficient =
               << <<CellOfFraction(p[1], p[2]), CellOfFraction(q[1], q[2])>> >>
        /\ originalCoefficient =
               << <<CellOfFraction(p[1], p[2]), CellOfFraction(q[1], q[2])>> >>
        /\ solutionCoefficient = ZeroVector(1)
        /\ overFlow = 0
        /\ work = <<>>
        /\ status = 0
        /\ solves = <<>>
        /\ last = <<"setCoefficientFraction", 1, 2, q[1], q[2]>>
        /\ ops = 0
        /\ script = << {"solveSystem"} >>
        /\ blocks = SetSystemEqCountBlocks(1)
        /\ outside = FALSE
        /\ pc = "rest"
        /\ copyI = 0
        /\ copyJ = 0

FractionSpec == FractionInit /\ [][SolveNext]_vars

(***************************************************************************)
(* A row scaled by a public multiplyMatrixRow, then one more public row    *)
(* operation                                                               *)
(***************************************************************************)
\* the values entered: zero, and the smallest and the largest magnitude of
\* a non-zero short with either sign
ScaleValues == {-BigVal, -1, 0, 1, BigVal}

\* two equations, each with one value entered in its first and last column
ScaleSystems ==
    {<< <<a, 0, a>>, <<b, 0, b>> >> : a \in ScaleValues, b \in ScaleValues}

\* struct fraction arguments that bring a cell near the 32-bit limits
ScaleMultipliers ==
    Multipliers
        \cup {Frac(NatOf(2147480000), One, 0), Frac(One, NatOf(262144), 0)}

ScaledInit ==
    Populated(ScaleSystems,
              << {"multiplyMatrixRow"},
                 {"multiplyMatrixRow", "divideMatrixRow", "addMatrixRows"} >>)

ScaledNext ==
    \/ \E row \in 0..eqCount, multiplier \in ScaleMultipliers :
           MultiplyMatrixRow(row, multiplier)
    \/ \E row \in 1..eqCount, divisor \in ScaleMultipliers :
           DivideMatrixRow(row, divisor)
    \/ \E row \in 1..eqCount, rowToAdd \in 1..eqCount :
           \E g \in AddOracles(row, rowToAdd) :
               AddMatrixRows(row, rowToAdd, g)

ScaledSpec == ScaledInit /\ [][ScaledNext]_vars

(***************************************************************************)
(* The copy of lines 904-906 followed one statement at a time.  The copy   *)
(* reads no cell to decide where it goes, so the cells are left out.       *)
(***************************************************************************)
\* the equation counts the copy is followed for: the small ones and the
\* largest an unsigned short holds
CopyCounts == (1..MaxN) \cup {ShortRange - 1}

\* solveSystem has cleared the flag and allocated its working copy
CopyInit ==
    \E count \in CopyCounts :
        /\ eqCount = count
        /\ coefficient = <<>>
        /\ originalCoefficient = <<>>
        /\ solutionCoefficient = <<>>
        /\ overFlow = 0
        /\ work = <<>>
        /\ status = 0
        /\ solves = <<>>
        /\ last = <<"solveSystem", 0>>
        /\ ops = 1
        /\ script = <<>>
        /\ blocks = SetSystemEqCountBlocks(count) + SolveSystemBlocks(count)
        /\ outside = FALSE
        /\ pc = "copy"
        /\ copyI = 0
        /\ copyJ = 0

\* line 906 and the j++ of line 905, taken while j < (eqCount + 1), which is
\* evaluated in int
CopyCell ==
    /\ pc = "copy"
    /\ copyI < eqCount
    /\ copyJ < eqCount + 1
    /\ copyJ' = NextShort(copyJ)
    /\ UNCHANGED <<eqCount, coefficient, originalCoefficient,
                   solutionCoefficient, overFlow, work, status, solves, last,
                   ops, script, blocks, outside, pc, copyI>>

\* the inner loop has ended: the i++ of line 904 and, when the test
\* i < eqCount then lets the body run again, the j = 0 of line 905
CopyRow ==
    /\ pc = "copy"
    /\ copyI < eqCount
    /\ ~(copyJ < eqCount + 1)
    /\ copyI' = NextShort(copyI)
    /\ copyJ' = IF NextShort(copyI) < eqCount THEN 0 ELSE copyJ
    /\ UNCHANGED <<eqCount, coefficient, originalCoefficient,
                   solutionCoefficient, overFlow, work, status, solves, last,
                   ops, script, blocks, outside, pc>>

\* the outer loop has ended: the call goes on to line 908
CopyDone ==
    /\ pc = "copy"
    /\ ~(copyI < eqCount)
    /\ pc' = "eliminate"
    /\ UNCHANGED <<eqCount, coefficient, originalCoefficient,
                   solutionCoefficient, overFlow, work, status, solves, last,
                   ops, script, blocks, outside, copyI, copyJ>>

CopyNext == CopyCell \/ CopyRow \/ CopyDone

\* the call is not suspended: it takes its next statement whenever it has one
CopySpec == CopyInit /\ [][CopyNext]_vars /\ WF_vars(CopyNext)

(***************************************************************************)
(* Exact rational arithmetic for the properties                            *)
(***************************************************************************)
SZero == SInt(FALSE, Z)

Rat(n, d) == [n |-> n, d |-> d]

\* the value a stored fraction stands for: zero when the numerator or the
\* denominator is 0, negative when the sign field is 1
RatOfCell(f) ==
    IF f.numerator = Z \/ f.denominator = Z THEN Rat(SZero, One)
    ELSE Rat(SInt(f.sign = 1, f.numerator), f.denominator)

RatAdd(a, b) ==
    Rat(SAdd(SMul(a.n, SInt(FALSE, b.d)), SMul(b.n, SInt(FALSE, a.d))),
        BMul(a.d, b.d))

RatMul(a, b) == Rat(SMul(a.n, b.n), BMul(a.d, b.d))

RatEq(a, b) == SMul(a.n, SInt(FALSE, b.d)) = SMul(b.n, SInt(FALSE, a.d))

\* the exact sum over columns j..count of matrix[i][j] * vector[j]
RECURSIVE ExactRowSum(_, _, _, _, _)
ExactRowSum(matrix, vector, i, j, count) ==
    IF j > count THEN Rat(SZero, One)
    ELSE RatAdd(RatMul(RatOfCell(matrix[i][j]), RatOfCell(vector[j])),
                ExactRowSum(matrix, vector, i, j + 1, count))

\* substituting vector into every equation of matrix gives exact equality
Satisfies(matrix, vector, count) ==
    \A i \in 1..count :
        RatEq(ExactRowSum(matrix, vector, i, 1, count),
              RatOfCell(matrix[i][count + 1]))

\* the integer rows of a matrix of integer cells, columns 1..width
IntRows(matrix, count, width) ==
    [i \in 1..count |-> [j \in 1..width |-> RatOfCell(matrix[i][j]).n]]

\* the rank of integer rows by fraction-free elimination from column c on
RECURSIVE RankFrom(_, _, _)
RankFrom(rows, c, width) ==
    IF rows = <<>> \/ c > width THEN 0
    ELSE LET P == {i \in 1..Len(rows) : rows[i][c] # SZero}
         IN  IF P = {} THEN RankFrom(rows, c + 1, width)
             ELSE LET p   == CHOOSE i \in P : \A q \in P : i <= q
                      piv == rows[p]
                      rest ==
                          [i \in 1..(Len(rows) - 1) |->
                              LET r == rows[IF i < p THEN i ELSE i + 1]
                              IN  [j \in 1..width |->
                                      SAdd(SMul(r[j], piv[c]),
                                           SNeg(SMul(piv[j], r[c])))]]
                  IN  1 + RankFrom(rest, c + 1, width)

CoefficientRank(matrix, count) ==
    RankFrom(IntRows(matrix, count, count), 1, count)

AugmentedRank(matrix, count) ==
    RankFrom(IntRows(matrix, count, count + 1), 1, count + 1)

NonSingular(matrix, count) == CoefficientRank(matrix, count) = count

Inconsistent(matrix, count) ==
    CoefficientRank(matrix, count) < AugmentedRank(matrix, count)

ConsistentSingular(matrix, count) ==
    /\ CoefficientRank(matrix, count) < count
    /\ CoefficientRank(matrix, count) = AugmentedRank(matrix, count)

\* every cell was stored by setCoefficient with a value in Values, so that
\* no product or sum of the elimination comes near 2^32
SmallIntegerSystem(matrix, count) ==
    \A i \in 1..count : \A j \in 1..(count + 1) :
        \E v \in Values : matrix[i][j] = CellOfValue(v)

\* a fraction in lowest terms with a sign of 0 or 1; zero is 0/0 with sign 0
LowestTerms(f) ==
    IF f.numerator = Z \/ f.denominator = Z THEN f = ZeroFrac
    ELSE f.sign \in {0, 1} /\ Euclid(f.numerator, f.denominator) = One

AfterSolve == last[1] = "solveSystem"

\* some cell of this column in the rows from row on is not the zero
\* sentinel; row and column are counted from 0 as in the code
ColumnHasPivot(m, row, column, count) ==
    \E i \in (row + 1)..count : ~IsZeroCell(m[i][column + 1])

\* ps is what the claim expects of the pivot step at row of m: the column
\* taken is the first from 0 on that has a non-zero cell in the rows from
\* row on, a non-zero cell [row][column] stays where it is, and no pivot is
\* reported only when every column is zero from row on
PivotAsClaimed(m, ps, row, count) ==
    /\ ps.ret = 0
          => /\ ColumnHasPivot(m, row, ps.column, count)
             /\ \A c \in 0..(ps.column - 1) :
                    ~ColumnHasPivot(m, row, c, count)
             /\ ~IsZeroCell(ps.m[row + 1][ps.column + 1])
             /\ ~IsZeroCell(m[row + 1][ps.column + 1]) => ps.m = m
    /\ ps.ret # 0
          => \A c \in 0..(count - 1) : ~ColumnHasPivot(m, row, c, count)

\* the coefficient columns of the working copy are the identity matrix:
\* every column got its pivot, so the call went on to the checks of lines
\* 1036-1067
IdentityBlock(m, count) ==
    \A i \in 1..count : \A j \in 1..count :
        m[i][j] = IF i = j THEN Frac(One, One, 0) ELSE ZeroFrac

\* the candidate solution: the last column of the working copy
Candidate(m, count) == [i \in 1..count |-> m[i][count + 1]]

\* a step that is a public multiplyMatrixRow, divideMatrixRow or
\* addMatrixRows call with its rows in range
RowOpStep ==
    /\ ops' = ops + 1
    /\ last'[1] \in {"multiplyMatrixRow", "divideMatrixRow", "addMatrixRows"}
    /\ last'[2] \in 1..eqCount
    /\ last'[1] = "addMatrixRows" => last'[3] \in 1..eqCount

\* what the fraction operation of the call returns for column j of matrix
\* m: the value and whether it executed overFlow = 1
EntryResult(call, m, j) ==
    IF call[1] = "multiplyMatrixRow" THEN multiply(m[call[2]][j], call[3])
    ELSE IF call[1] = "divideMatrixRow" THEN divide(m[call[2]][j], call[3])
    ELSE add(m[call[2]][j], m[call[3]][j], <<>>, 0)

\* the same numerator and denominator
SameMagnitude(x, y) ==
    x.numerator = y.numerator /\ x.denominator = y.denominator

\* a step that is a public addMatrixRows call with both rows in range
AddStep ==
    /\ ops' = ops + 1
    /\ last'[1] = "addMatrixRows"
    /\ last'[2] \in 1..eqCount
    /\ last'[3] \in 1..eqCount

\* every column of the two rows holds a zero sentinel, which add returns
\* from at lines 519-523, or two cells of the same sign, one of signs
SameSignRows(m, row, rowToAdd, count, signs) ==
    \A j \in 1..(count + 1) :
        \/ IsZeroCell(m[row][j])
        \/ IsZeroCell(m[rowToAdd][j])
        \/ /\ m[row][j].sign = m[rowToAdd][j].sign
           /\ m[row][j].sign \in signs

\* the exact sum of the cross products of the magnitudes of a and b, or
\* the exact product of their denominators, is above 2^32 - 1
AboveUnsigned(a, b) ==
    \/ BLess(Max32, BAdd(BMul(a.numerator, b.denominator),
                         BMul(b.numerator, a.denominator)))
    \/ BLess(Max32, BMul(a.denominator, b.denominator))

\* some column of the two rows holds two non-zero cells whose sum is above
\* the unsigned 32-bit maximum
SomeSumAboveUnsigned(m, row, rowToAdd, count) ==
    \E j \in 1..(count + 1) :
        /\ ~IsZeroCell(m[row][j])
        /\ ~IsZeroCell(m[rowToAdd][j])
        /\ AboveUnsigned(m[row][j], m[rowToAdd][j])

\* a and b are negative and the exact sum of their cross products is
\* below -2^31
BelowSigned(a, b) ==
    /\ ~IsZeroCell(a)
    /\ ~IsZeroCell(b)
    /\ a.sign = 1
    /\ b.sign = 1
    /\ BLess(TwoTo31, BAdd(BMul(a.numerator, b.denominator),
                           BMul(b.numerator, a.denominator)))

\* r is the exact sum of a and b in canonical form
ExactSum(r, a, b) ==
    /\ RatEq(RatOfCell(r), RatAdd(RatOfCell(a), RatOfCell(b)))
    /\ LowestTerms(r)

(***************************************************************************)
(* Properties                                                              *)
(***************************************************************************)
\* C1: whenever solveSystem returns SOLVED, substituting the solution vector
\* into every equation of the original matrix gives exact rational equality
\* with the constant term.
C1_SolvedSatisfies ==
    (AfterSolve /\ status = SOLVED)
        => Satisfies(originalCoefficient, solutionCoefficient, eqCount)

\* a state C1 is about: SOLVED was returned for the system
\* 1024x + 2y = 0, 181x - 32768y = 1024 with x = 1024/181
C1_WrongSolution ==
    /\ AfterSolve
    /\ status = SOLVED
    /\ originalCoefficient = SystemOf(WrapExample)
    /\ solutionCoefficient[1] = Frac(NatOf(1024), NatOf(181), 0)

\* C2: for a system of integer coefficients stored by setCoefficient whose
\* coefficient matrix is non-singular and whose solve meets no overflow,
\* solveSystem returns SOLVED and the solution vector is the unique solution,
\* every entry in lowest terms with a sign of 0 or 1.
C2_NonSingularSolved ==
    (/\ AfterSolve
     /\ SmallIntegerSystem(originalCoefficient, eqCount)
     /\ NonSingular(originalCoefficient, eqCount)
     /\ status # OVERFLOW)
        => /\ status = SOLVED
           /\ Satisfies(originalCoefficient, solutionCoefficient, eqCount)
           /\ \A i \in 1..eqCount : LowestTerms(solutionCoefficient[i])

\* a state C2 is about: the system 2x + y = 5, x - y = 1 of spec.md was
\* solved and NO_SOLUTIONS was returned
C2_ExampleRejected ==
    /\ AfterSolve
    /\ originalCoefficient = SystemOf(UniqueExample)
    /\ status = NO_SOLUTIONS

\* C3: for a system of integer coefficients whose solve meets no overflow,
\* if the system has no rational solution then solveSystem returns
\* NO_SOLUTIONS.
C3_InconsistentNoSolutions ==
    (/\ AfterSolve
     /\ SmallIntegerSystem(originalCoefficient, eqCount)
     /\ Inconsistent(originalCoefficient, eqCount)
     /\ status # OVERFLOW)
        => status = NO_SOLUTIONS

\* a state C3 is about: 0 = 0, 0 = 1 was answered INFINITE_SOLUTIONS
C3_ContradictionInfinite ==
    /\ AfterSolve
    /\ originalCoefficient = SystemOf(<< <<0, 0, 0>>, <<0, 0, 1>> >>)
    /\ status = INFINITE_SOLUTIONS

\* C4: for a system of integer coefficients whose solve meets no overflow,
\* if the system is consistent and its coefficient matrix is singular then
\* solveSystem returns INFINITE_SOLUTIONS.
C4_SingularInfinite ==
    (/\ AfterSolve
     /\ SmallIntegerSystem(originalCoefficient, eqCount)
     /\ ConsistentSingular(originalCoefficient, eqCount)
     /\ status # OVERFLOW)
        => status = INFINITE_SOLUTIONS

\* a state C4 is about: y = 1, 0 = 0, z = 1 was answered NO_SOLUTIONS
C4_DependentRejected ==
    /\ AfterSolve
    /\ originalCoefficient
         = SystemOf(<< <<0, 1, 0, 1>>, <<0, 0, 0, 0>>, <<0, 0, 1, 1>> >>)
    /\ status = NO_SOLUTIONS

\* C5: two solveSystem calls with no write to the original matrix, resize or
\* cleanup between them, whatever public row operations happen in between,
\* return the same status and leave the same solution vector.
C5_Idempotent ==
    Len(solves) = 2
        => /\ solves[1].status = solves[2].status
           /\ solves[1].sol = solves[2].sol

\* a state C5 is about: the second solve of 2x + y = 5, x - y = 1 returned a
\* status other than the first
C5_SecondSolveDiffers ==
    /\ Len(solves) = 2
    /\ originalCoefficient = SystemOf(UniqueExample)
    /\ solves[1].status = SOLVED
    /\ solves[2].status = NO_SOLUTIONS

\* C6: when the exact numerator product or the exact denominator product of
\* a multiply or divide exceeds 2^32 - 1, the operation sets the overflow
\* flag and returns 0/0 with sign 0.  The operation is the one the public
\* multiplyMatrixRow or divideMatrixRow applies to the first cell of a row
\* of a newly populated system, whose operand the original matrix still
\* holds.
C6_OverflowDetected ==
    (/\ ops = 1
     /\ last[1] \in {"multiplyMatrixRow", "divideMatrixRow"}
     /\ last[2] \in 1..eqCount)
        => LET a == originalCoefficient[last[2]][1]
               b == last[3]
               numProduct ==
                   IF last[1] = "multiplyMatrixRow"
                   THEN BMul(a.numerator, b.numerator)
                   ELSE BMul(a.numerator, b.denominator)
               denProduct ==
                   IF last[1] = "multiplyMatrixRow"
                   THEN BMul(a.denominator, b.denominator)
                   ELSE BMul(a.denominator, b.numerator)
           IN  (BLess(Max32, numProduct) \/ BLess(Max32, denProduct))
                   => /\ overFlow = 1
                      /\ coefficient[last[2]][1] = ZeroFrac

\* a state C6 is about: 32767/1 times 262144/1 left the flag clear and
\* stored the product modulo 2^32
C6_TruncatedProduct ==
    /\ ops = 1
    /\ last = <<"multiplyMatrixRow", 1, Frac(NatOf(262144), One, 0)>>
    /\ originalCoefficient[1][1] = CellOfValue(BigVal)
    /\ overFlow = 0
    /\ coefficient[1][1]
         = Frac(Trunc32(BMul(NatOf(BigVal), NatOf(262144))), One, 0)

\* C7: solveSystem clears the overflow flag when it starts, and at its
\* return the status is OVERFLOW if and only if the overflow flag is set.
C7_OverflowIffFlag ==
    AfterSolve => ((status = OVERFLOW) <=> (overFlow = 1))

\* a state C7 is about: the addMatrixRows of line 997 overflowed while the
\* column above the second pivot was cleared, and solveSystem returned
\* OVERFLOW from line 998 with the pivot row still negated (-1/1 in the
\* pivot cell, between lines 976 and 1020) and the flag set
C7_EliminationAborted ==
    /\ AfterSolve
    /\ originalCoefficient = SystemOf(EliminateOverflowExample)
    /\ status = OVERFLOW
    /\ overFlow = 1
    /\ work[2][2] = Frac(One, One, 1)
    /\ work[1][2] = ZeroFrac

\* another: the divideMatrixRow of line 971 overflowed on the second pivot,
\* which was stored as 0/0, with the column above it not yet cleared
C7_NormalizationAborted ==
    /\ AfterSolve
    /\ originalCoefficient = SystemOf(NormalizeOverflowExample)
    /\ status = OVERFLOW
    /\ overFlow = 1
    /\ work[2][2] = ZeroFrac
    /\ work[1][2] = Frac(One, NatOf(BigVal), 0)

\* another: the divideMatrixRow of line 999 overflowed after the column
\* above the second pivot was cleared
C7_RestoreAborted ==
    /\ AfterSolve
    /\ originalCoefficient = SystemOf(RestoreOverflowExample)
    /\ status = OVERFLOW
    /\ overFlow = 1
    /\ work[2][2] = Frac(One, One, 1)
    /\ work[1][2] = ZeroFrac

\* another: the overflow came in the verification, after the elimination
\* had given every column its pivot
C7_VerificationAborted ==
    /\ AfterSolve
    /\ originalCoefficient = SystemOf(OverflowExample)
    /\ status = OVERFLOW
    /\ overFlow = 1
    /\ IdentityBlock(work, eqCount)

\* another: solveSystem was entered with the flag set by a public row
\* operation and returned SOLVED with the flag clear
C7_StaleFlagCleared ==
    /\ AfterSolve
    /\ last[2] = 1
    /\ status = SOLVED
    /\ overFlow = 0

\* C8: setCoefficientFraction with an in-range row and column and
\* denominator 0 stores 0/0 with sign 0 in that cell of the original and of
\* the altered matrix, whatever the numerator.
C8_ZeroDenominatorSentinel ==
    (/\ last[1] = "setCoefficientFraction"
     /\ InBounds(last[2], last[3], eqCount)
     /\ last[5] = 0)
        => /\ originalCoefficient[last[2]][last[3]] = ZeroFrac
           /\ coefficient[last[2]][last[3]] = ZeroFrac

\* a state C8 is about: numerator -1 with denominator 0 stored sign 1
C8_NegativeZeroStored ==
    /\ last[1] = "setCoefficientFraction"
    /\ InBounds(last[2], last[3], eqCount)
    /\ last[4] < 0
    /\ last[5] = 0
    /\ originalCoefficient[last[2]][last[3]] = Frac(Z, Z, 1)

\* C9: after a successful setSystemEqCount(N), whatever came before, the
\* equation count is N and every cell of the original matrix, the altered
\* matrix and the solution vector is 0/0 with sign 0.
C9_ResizeZeroed ==
    (last[1] = "setSystemEqCount" /\ last[3] = 1)
        => /\ eqCount = last[2]
           /\ originalCoefficient = ZeroMatrix(last[2])
           /\ coefficient = ZeroMatrix(last[2])
           /\ solutionCoefficient = ZeroVector(last[2])

\* a state C9 is about: setSystemEqCount(0) returned 1 and a coefficient of
\* the earlier configuration is still stored
C9_ResidueAfterResize ==
    /\ last = <<"setSystemEqCount", 0, 1>>
    /\ eqCount = 1
    /\ originalCoefficient[1][1] # ZeroFrac

\* C10: a solveSystem call leaves the original matrix, cells and row order,
\* and the altered matrix as they were before the call.
C10_SolveFrame ==
    [][(last'[1] = "solveSystem" /\ ops' = ops + 1)
          => /\ originalCoefficient' = originalCoefficient
             /\ coefficient' = coefficient]_vars

\* a state C10 is about: solveSystem returned SOLVED from a working copy
\* that differs from the original, while the altered matrix holds the
\* result of an earlier public row operation
C10_SolvedBesideAlteredMatrix ==
    /\ AfterSolve
    /\ status = SOLVED
    /\ work # originalCoefficient
    /\ coefficient # originalCoefficient
    /\ coefficient # work

\* C11: a solveSystem call that returns a status other than SOLVED leaves
\* every entry of the solution vector as it was before the call, and one
\* that returns SOLVED writes all N entries, the last column of its working
\* copy.
C11_SolutionWrittenOnlyWhenSolved ==
    [][(last'[1] = "solveSystem" /\ ops' = ops + 1)
          => IF status' = SOLVED
             THEN solutionCoefficient' =
                      [i \in 1..eqCount |-> work'[i][eqCount + 1]]
             ELSE solutionCoefficient' = solutionCoefficient]_vars

\* a state C11 is about: solveSystem returned a status other than SOLVED and
\* the solution vector still holds the non-zero solution an earlier call
\* wrote
C11_EarlierSolutionKept ==
    /\ AfterSolve
    /\ status # SOLVED
    /\ solves # <<>>
    /\ solves[1].status = SOLVED
    /\ solutionCoefficient = solves[1].sol
    /\ solutionCoefficient # ZeroVector(eqCount)

\* C12: for every equation count in 1..65535 solveSystem terminates; in
\* particular the copy of lines 904-906, whose counters are 16-bit, ends
\* and the call goes on to the elimination.
C12_CopyEnds == <>(pc = "eliminate")

\* a state C12 is about: with 65535 equations the column counter holds the
\* largest unsigned short and the test j < (eqCount + 1) still lets the
\* copy continue
C12_ColumnCounterAtMaximum ==
    /\ pc = "copy"
    /\ eqCount = ShortRange - 1
    /\ copyJ = ShortRange - 1
    /\ copyJ < eqCount + 1

\* C13: after cleanup returns, no block the object obtained from malloc is
\* still allocated, the working copies of earlier solveSystem calls and the
\* arrays replaced by a repeated setSystemEqCount included; the equation
\* count is 0 and the overflow flag is 0.
C13_CleanupFreesEverything ==
    last[1] = "cleanup"
        => /\ blocks = 0
           /\ eqCount = 0
           /\ overFlow = 0

\* a state C13 is about: cleanup has returned after a solveSystem call that
\* returned a status, and blocks are still allocated
C13_WorkingCopyLeft ==
    /\ last[1] = "cleanup"
    /\ status \in {SOLVED, NO_SOLUTIONS, INFINITE_SOLUTIONS, OVERFLOW}
    /\ work # <<>>
    /\ coefficient = <<>>
    /\ blocks = SolveSystemBlocks(Len(work))

\* C14: whenever add(a, b) on canonical fractions a and b does not set the
\* overflow flag, its result is the exact sum a + b in canonical form:
\* lowest terms, 0/0 with sign 0 for a zero sum, sign 0 for a positive and 1
\* for a negative sum.  add is observed through addMatrixRows, which stores
\* add of the two cells of every column.
C14_AddExact ==
    [][(AddStep /\ overFlow = 0 /\ overFlow' = 0)
          => \A j \in 1..(eqCount + 1) :
                 (/\ LowestTerms(coefficient[last'[2]][j])
                  /\ LowestTerms(coefficient[last'[3]][j]))
                     => ExactSum(coefficient'[last'[2]][j],
                                 coefficient[last'[2]][j],
                                 coefficient[last'[3]][j])]_vars

\* a state C14 is about: addMatrixRows has added two cells of the values
\* 2 and 1, the flag is clear, and the sum 3/1 carries a sign field that is
\* neither 0 nor 1
C14_SumWithStraySign ==
    /\ last = <<"addMatrixRows", 1, 2>>
    /\ overFlow = 0
    /\ originalCoefficient[1][1] = CellOfValue(1)
    /\ coefficient[2][1] = CellOfValue(1)
    /\ coefficient[1][1].numerator = NatOf(3)
    /\ coefficient[1][1].denominator = One
    /\ coefficient[1][1].sign \notin {0, 1}

\* C15: when addMatrixRows adds rows whose non-zero cells pair up with the
\* same sign, both 0 or both 1, add signals overflow only if for some pair
\* the sum of the cross products of the magnitudes or the product of the
\* denominators is above the unsigned 32-bit maximum.
C15_SameSignOverflowOnlyAboveUnsigned ==
    [][(/\ AddStep
        /\ overFlow = 0
        /\ overFlow' = 1
        /\ SameSignRows(coefficient, last'[2], last'[3], eqCount, {0, 1}))
          => SomeSumAboveUnsigned(coefficient, last'[2], last'[3],
                                  eqCount)]_vars

\* C15 as the code has it: the sum is formed on unsigned magnitudes, and
\* overflow signalled only above the unsigned 32-bit maximum, when both
\* operands have sign 0; two negative operands go through the signed 32-bit
\* checks, which signal overflow once their sum is below -2^31.
C15_UnsignedOnlyForSignZero ==
    [][(AddStep /\ overFlow = 0)
          => /\ (/\ overFlow' = 1
                 /\ SameSignRows(coefficient, last'[2], last'[3], eqCount,
                                 {0}))
                    => SomeSumAboveUnsigned(coefficient, last'[2], last'[3],
                                            eqCount)
             /\ BelowSigned(coefficient[last'[2]][1],
                            coefficient[last'[3]][1])
                    => overFlow' = 1]_vars

\* a state C15 is about: the row that starts with -2147480000/1 was added to
\* the row that starts with -32767/1; the magnitude of the sum, 2147512767, is below 2^32
\* and add has set the flag and returned 0/0
C15_NegativeSumRejected ==
    /\ last = <<"addMatrixRows", 2, 1>>
    /\ coefficient[1][1] = Frac(NatOf(2147480000), One, 1)
    /\ originalCoefficient[2][1] = CellOfValue(-BigVal)
    /\ overFlow = 1
    /\ coefficient[2][1] = ZeroFrac

\* a state the unsigned path of C15 is about: the row that starts with
\* 1/262144 was added to itself and the product of the denominators, 2^36, set the flag
C15_UnsignedSumRejected ==
    /\ last = <<"addMatrixRows", 1, 1>>
    /\ originalCoefficient[1][1] = CellOfValue(1)
    /\ originalCoefficient[2][1] = CellOfValue(0)
    /\ overFlow = 1
    /\ coefficient[1][1] = ZeroFrac

\* C16: divide of a non-zero dividend by the zero sentinel 0/0 returns the
\* dividend unaltered and does not set the overflow flag.  divide is
\* observed through divideMatrixRow as the first call on a populated
\* system, where the cells before the call are those of the original matrix.
C16_ZeroDivisionReturnsDividend ==
    (/\ ops = 1
     /\ last[1] = "divideMatrixRow"
     /\ last[2] \in 1..eqCount
     /\ last[3] = ZeroFrac)
        => /\ overFlow = 0
           /\ \A j \in 1..(eqCount + 1) :
                  ~IsZeroCell(originalCoefficient[last[2]][j])
                      => coefficient[last[2]][j]
                             = originalCoefficient[last[2]][j]

\* a state C16 is about: the row (1/1, 32767/1) was divided by 0/0 and both
\* cells now hold 0/0
C16_DividendLost ==
    /\ ops = 1
    /\ last = <<"divideMatrixRow", 1, ZeroFrac>>
    /\ originalCoefficient[1] = <<CellOfValue(1), CellOfValue(BigVal)>>
    /\ coefficient[1] = <<ZeroFrac, ZeroFrac>>
    /\ overFlow = 0

\* C17: when the elimination has reduced the working copy and the candidate
\* solution satisfies every original equation as an exact rational
\* equality, the verification pass does not return NO_SOLUTIONS: the call
\* returns SOLVED, also for coefficients entered with
\* setCoefficientFraction not in lowest terms, such as 2/4.
C17_SatisfyingCandidateSolved ==
    (/\ AfterSolve
     /\ status \in {SOLVED, NO_SOLUTIONS}
     /\ IdentityBlock(work, eqCount)
     /\ Satisfies(originalCoefficient, Candidate(work, eqCount), eqCount))
        => status = SOLVED

\* a state C17 is about: the equation 1/1 x = 2/4 was solved to the
\* candidate x = 2/4, which satisfies it, and NO_SOLUTIONS was returned
C17_UnreducedConstantRejected ==
    /\ AfterSolve
    /\ originalCoefficient[1] = <<CellOfFraction(1, 1), CellOfFraction(2, 4)>>
    /\ work[1] = <<CellOfFraction(1, 1), CellOfFraction(2, 4)>>
    /\ status = NO_SOLUTIONS

\* C18: for the pivot column considered with the current pivot row, a
\* column reached by skipping the previous one included, the cell of that
\* row is examined first: a non-zero one becomes the pivot, the rows below
\* are searched only when it is 0/0, and a column is skipped only when that
\* cell and every cell below it are zero.  Stated for the first pivot of a
\* solveSystem call, where the working copy is the original matrix and the
\* pivot row is row 0.
C18_PivotCellExaminedFirst ==
    AfterSolve
        => PivotAsClaimed(originalCoefficient,
                          Pivot(originalCoefficient, 0, 0, eqCount,
                                StrayOf(ZeroFrac), FALSE),
                          0, eqCount)

\* a state C18 is about: column 0 of a two-equation system is zero, cell
\* (0, 1) is not, and the call returned from the search without a pivot
\* and without a row operation, the working copy equal to the original
C18_ColumnSkippedOverNonZeroCell ==
    /\ AfterSolve
    /\ eqCount = 2
    /\ IsZeroCell(originalCoefficient[1][1])
    /\ IsZeroCell(originalCoefficient[2][1])
    /\ ~IsZeroCell(originalCoefficient[1][2])
    /\ IsZeroCell(originalCoefficient[2][2])
    /\ ~IsZeroCell(originalCoefficient[2][3])
    /\ work = originalCoefficient
    /\ status = INFINITE_SOLUTIONS

\* C19: a public multiplyMatrixRow, divideMatrixRow or addMatrixRows call
\* with in-range rows, none of whose entry-wise fraction operations
\* overflows, updates all N+1 entries of the target row, whatever happened
\* earlier on the object, an earlier call that ended with the overflow flag
\* set included.
C19_RowOperationUpdatesRow ==
    [][(/\ RowOpStep
        /\ \A j \in 1..(eqCount + 1) :
               EntryResult(last', coefficient, j).of = 0)
          => \A j \in 1..(eqCount + 1) :
                 SameMagnitude(coefficient'[last'[2]][j],
                               EntryResult(last', coefficient, j).val)]_vars

\* a state C19 is about: multiplyMatrixRow overflowed on row 1, then row
\* (1/1, 0, 1/1) was multiplied by 2/1, which cannot overflow: its first
\* cell holds 2/1 and its last cell still 1/1
C19_RowLeftHalfUpdated ==
    /\ ops = 2
    /\ last = <<"multiplyMatrixRow", 2, Frac(NatOf(2), One, 0)>>
    /\ originalCoefficient[1][1] = CellOfValue(BigVal)
    /\ coefficient[1][1] = ZeroFrac
    /\ originalCoefficient[2] = <<CellOfValue(1), ZeroFrac, CellOfValue(1)>>
    /\ coefficient[2] = <<Frac(NatOf(2), One, 0), ZeroFrac, CellOfValue(1)>>
    /\ overFlow = 1

\* C20: after a solveSystem call, whatever the equation count, every cell
\* the call read or wrote lies in rows 0..N-1 and columns 0..N of its
\* working copy; no access fell outside the allocated grid.
C20_AccessInGrid == AfterSolve => ~outside

\* solveSystem on an instance without equations has read the cell of
\* row -1, column -1 in its final check
C20_EmptySystemRead ==
    /\ AfterSolve
    /\ eqCount = 0
    /\ work = <<>>
    /\ FinalCheckCell(eqCount) = <<-1, -1>>
    /\ outside

=============================================================================
